---- MODULE Spec2Model ----
(***************************************************************************)
(* PokeProtocol: the battle synchronisation state machine of the Host, the  *)
(* Joiner and the Spectator peers (peers.py) over the acknowledged datagram *)
(* transport (network.py), with the damage formula of pokemon.py.           *)
(*                                                                         *)
(* Every received datagram is handled on a thread of its own                *)
(* (network.py:130) and every send blocks its thread until the datagram is  *)
(* acknowledged (network.py:49).  A handler is therefore modelled as a      *)
(* sequence of segments, each running atomically from one blocking send to  *)
(* the next; a thread blocked in a send travels with its datagram (field k  *)
(* of the network entry) and becomes runnable again when the destination's  *)
(* receive loop has taken the datagram and acknowledged it.                 *)
(***************************************************************************)
EXTENDS Integers, Sequences, FiniteSets, Bags, TLC

(***************************************************************************)
(* Bounds of the model.                                                     *)
(***************************************************************************)
\* announce_attack calls that pass their guard, over the whole match
MaxAttacks == 3
\* a user types a command (attack, spectate) only while at most this many
\* datagrams and handler threads of the match are outstanding
MaxPending == 1
\* announce_attack calls that pass their guard, over a match that a spectator
\* process watches
MaxAttacksWatched == 2
\* the datagrams and handler threads that may be outstanding when a user
\* announces an attack in a match that a spectator process watches
MaxPendingWatched == 0
\* announce_attack calls that pass their guard, and the datagrams and handler
\* threads outstanding when one is made, over a match with chat
MaxAttacksChat == 2
MaxPendingChat == 0
\* send_chat calls over a match with chat
MaxChats == 1
\* announce_attack calls that pass their guard, the datagrams and handler
\* threads outstanding when one is made, and the envelopes delivered twice,
\* over a match with retransmissions
MaxAttacksAgain == 2
MaxPendingAgain == 0
MaxDuplicates == 1
\* announce_attack calls that pass their guard, and the datagrams and handler
\* threads outstanding when the first of them is made, over the start of a
\* match
MaxAttacksFirst == 2
MaxPendingFirst == 1
\* calls of calculate_damage recorded over a run of the damage formula
MaxCalls == 2

\* a match in which an attack is announced only when the one before is through
MaxAttacksOnce == 2
MaxPendingOnce == 0

\* a match in which a BATTLE_SETUP is delivered again, late
MaxAttacksLate == 2
MaxPendingLate == 1

\* a match against a combatant the Joiner's csv does not hold
MaxAttacksFallback == 2
MaxPendingFallback == 0
\* a watched match in which a SPECTATOR_REQUEST is delivered again
MaxAttacksTwice == 2
MaxPendingTwice == 0
\* calls of BasePeer.send by the user threads, over a run of the transport
MaxUserSends == 2
\* calls of BasePeer.send by handler threads (replies), over a run
MaxReplies == 1
\* faults over a run: a datagram the network loses, a datagram that reaches a
\* socket from outside the match, a sock.sendto call that raises
MaxFaults == 1
\* the same calls over a run without faults
MaxUserSendsCalm == 1
MaxRepliesCalm == 2

(***************************************************************************)
(* Values.                                                                  *)
(***************************************************************************)
None == "None"
\* battle_state['joiner_hp'] / ['host_hp'] before the opponent's setup (None)
NoHp == 0 - 1

Max(a, b) == IF a >= b THEN a ELSE b

\* pokemon.py MOVES
MOVES ==
  [ Tackle       |-> [type |-> "Normal",   power |-> 40, damage_category |-> "physical"],
    QuickAttack  |-> [type |-> "Normal",   power |-> 40, damage_category |-> "physical"],
    Scratch      |-> [type |-> "Normal",   power |-> 40, damage_category |-> "physical"],
    Ember        |-> [type |-> "Fire",     power |-> 40, damage_category |-> "special"],
    WaterGun     |-> [type |-> "Water",    power |-> 40, damage_category |-> "special"],
    Thunderbolt  |-> [type |-> "Electric", power |-> 90, damage_category |-> "special"],
    VineWhip     |-> [type |-> "Grass",    power |-> 45, damage_category |-> "physical"] ]

\* MOVES.get(move_name): the move, or NoMove for an unknown name
NoMove == [type |-> "", power |-> 0, damage_category |-> None]
MovesGet(move_name) ==
  IF move_name \in DOMAIN MOVES THEN MOVES[move_name] ELSE NoMove

\* the moves the users pick from
MoveInputs == {"Tackle", "VineWhip"}

(***************************************************************************)
(* Combatant rows.  type_effectiveness holds the against_* multipliers in   *)
(* quarters (4 is 1.0); has_types tells a database row (load_pokemon adds   *)
(* 'types' and 'type_effectiveness') from the transmitted fallback data.    *)
(***************************************************************************)
NoRow ==
  [ name |-> None, type1 |-> "", type2 |-> "", hp |-> 0, attack |-> 0, defense |-> 0,
    sp_attack |-> 0, sp_defense |-> 0, has_types |-> FALSE,
    type_effectiveness |-> [Normal |-> 4] ]

\* "std": the csv both processes are meant to share; "alt": a csv whose
\* Bulbasaur row differs in attack and defense; "few": a csv without Bulbasaur
pokemon_db(v) ==
  IF v = "few"
  THEN
  [ Charmander |->
      [ name |-> "Charmander", type1 |-> "fire", type2 |-> "", hp |-> 39,
        attack |-> 52, defense |-> 43,
        sp_attack |-> 60, sp_defense |-> 50, has_types |-> TRUE,
        type_effectiveness |->
          [Normal |-> 4, Fire |-> 2, Water |-> 8, Electric |-> 4, Grass |-> 2] ] ]
  ELSE
  [ Bulbasaur |->
      [ name |-> "Bulbasaur", type1 |-> "grass", type2 |-> "poison", hp |-> 45,
        attack |-> IF v = "alt" THEN 50 ELSE 49,
        defense |-> IF v = "alt" THEN 48 ELSE 49,
        sp_attack |-> 65, sp_defense |-> 65, has_types |-> TRUE,
        type_effectiveness |->
          [Normal |-> 4, Fire |-> 8, Water |-> 2, Electric |-> 2, Grass |-> 1] ],
    Charmander |->
      [ name |-> "Charmander", type1 |-> "fire", type2 |-> "", hp |-> 39,
        attack |-> 52, defense |-> 43,
        sp_attack |-> 60, sp_defense |-> 50, has_types |-> TRUE,
        type_effectiveness |->
          [Normal |-> 4, Fire |-> 2, Water |-> 8, Electric |-> 4, Grass |-> 2] ] ]

\* the matches explored: Host's combatant, Joiner's combatant, Joiner's csv
Matches ==
  { <<"Bulbasaur", "Charmander", "std">>,
    <<"Bulbasaur", "Charmander", "alt">>,
    <<"Bulbasaur", "Bulbasaur", "std">> }

(***************************************************************************)
(* pokemon.py: the damage formula.                                          *)
(***************************************************************************)
\* the number of non-empty entries of defender_row['types']
TypeCount(row) ==
  (IF row.type1 # "" THEN 1 ELSE 0) + (IF row.type2 # "" THEN 1 ELSE 0)

Pow(b, n) == IF n = 0 THEN 1 ELSE IF n = 1 THEN b ELSE b * b

\* str.capitalize on the names of types
Capitalize(s) ==
  CASE s \in {"normal", "NORMAL"} -> "Normal"
    [] s \in {"grass", "GRASS"} -> "Grass"
    [] OTHER -> s

\* get_type_multiplier, as the fraction <<numerator, denominator>>
get_type_multiplier(move_type, defender_row) ==
  IF move_type = "" THEN <<1, 1>>
  ELSE LET te  == defender_row.type_effectiveness
           mt  == Capitalize(move_type)
           val == IF mt \in DOMAIN te THEN te[mt] ELSE 4
       IN  <<Pow(val, TypeCount(defender_row)), Pow(4, TypeCount(defender_row))>>

\* round(): to the nearest integer, a tie to the even one
Round(num, den) ==
  LET q == num \div den
      r == num % den
  IN  IF 2 * r < den THEN q
      ELSE IF 2 * r > den THEN q + 1
      ELSE IF q % 2 = 0 THEN q ELSE q + 1

\* move.get('power', 50)
DefaultPower == 50

\* calculate_damage; Raise stands for the KeyError of a defender row without
\* 'types' (a fallback row)
Raise == 0 - 2
\* `expected is None`: a report that cannot be validated for missing data
Missing == 0 - 3
\* raw of calculate_damage, as the exact fraction <<numerator, denominator>>
Raw(attacker_row, defender_row, move) ==
  LET physical == move.damage_category \in {"physical", None}
      atk   == IF physical THEN attacker_row.attack ELSE attacker_row.sp_attack
      defn  == IF physical THEN defender_row.defense ELSE defender_row.sp_defense
      power == IF move = NoMove THEN DefaultPower ELSE move.power
      tm    == get_type_multiplier(move.type, defender_row)
  IN  <<atk * power * tm[1], Max(defn, 1) * tm[2]>>

\* a formula that cuts the fraction off
calculate_damage_Truncates(attacker_row, defender_row, move) ==
  LET raw == Raw(attacker_row, defender_row, move)
  IN  IF move.type # "" /\ ~defender_row.has_types THEN Raise
      ELSE Max(1, raw[1] \div raw[2])

\* a formula that adds a point for an attacker at full health
calculate_damage_ReadsHp(attacker_row, defender_row, move) ==
  LET raw == Raw(attacker_row, defender_row, move)
  IN  IF move.type # "" /\ ~defender_row.has_types THEN Raise
      ELSE Max(1, Round(raw[1], raw[2])) + (IF attacker_row.hp > 0 THEN 1 ELSE 0)

calculate_damage(attacker_row, defender_row, move) ==
  LET raw == Raw(attacker_row, defender_row, move)
  IN  IF move.type # "" /\ ~defender_row.has_types THEN Raise
      ELSE Max(1, Round(raw[1], raw[2]))

\* calculate_damage in floating point: where raw is exactly halfway between
\* two integers, the sign err of the rounding error of the two multiplications
\* and the division decides the neighbour round() returns (0: no error, the
\* even one)
Errs == {0 - 1, 0, 1}
calculate_damage_float(attacker_row, defender_row, move, err) ==
  LET raw == Raw(attacker_row, defender_row, move)
      q   == raw[1] \div raw[2]
  IN  IF move.type # "" /\ ~defender_row.has_types THEN Raise
      ELSE IF 2 * (raw[1] % raw[2]) = raw[2] /\ err # 0
           THEN Max(1, IF err < 0 THEN q ELSE q + 1)
           ELSE calculate_damage(attacker_row, defender_row, move)

(***************************************************************************)
(* State.                                                                   *)
(***************************************************************************)
VARIABLES
  host,      \* the HostPeer object
  joiner,    \* the JoinerPeer object
  spectator, \* the SpectatorPeer object
  net,       \* bag of datagrams in flight, each with the thread blocked on its ACK
  threads,   \* bag of runnable handler threads
  user,      \* the user thread of each peer: "init", "idle" or "busy" (inside send);
             \* "absent": no spectator process
  hist,      \* history of the match, read by the properties only
  seq_counter, \* BasePeer.seq_counter[self.name] of each peer
  waiters,   \* ReliableSender.waiters of each peer: seq -> the call owning the Event
  senders,   \* the threads inside BasePeer.send: position and locals of each call
  sock,      \* bag of datagrams on the wire or in a socket's receive buffer
  rx,        \* the datagram each _recv_loop is working on
  nhist,     \* history of the transport, read by the properties only
  calc       \* the arguments of calculate_damage and the calls made with them,
             \* used by the specification of the damage formula only

\* the session layer and the transport layer
session == <<host, joiner, spectator, net, threads, user, hist, calc>>
transport == <<seq_counter, waiters, senders, sock, rx, nhist, calc>>
program == <<host, joiner, spectator, net, threads, user, hist,
             seq_counter, waiters, senders, sock, rx, nhist>>
vars == <<host, joiner, spectator, net, threads, user, hist,
          seq_counter, waiters, senders, sock, rx, nhist, calc>>

Peers == {"host", "joiner", "spec"}

\* an envelope; the fields a message type does not carry keep these defaults
Msg(mt, src, dst) ==
  [ message_type |-> mt, src |-> src, dst |-> dst,
    move_name |-> None, attacker |-> None, damage_dealt |-> 0,
    defender_hp_remaining |-> 0, current_turn |-> None, winner |-> None,
    move_used |-> None, reason |-> None, role |-> None, content_type |-> None,
    exch |-> None,    \* exch (history): the attacker's role of the exchange
    again |-> FALSE ] \* again (history): the envelope is delivered twice

\* a BATTLE_SETUP envelope
SetupMsg(src, dst, pokemon_name, pokemon) ==
  [ message_type |-> "BATTLE_SETUP", src |-> src, dst |-> dst,
    pokemon_name |-> pokemon_name, pokemon |-> pokemon ]

NoMsg == [message_type |-> None]

\* a handler thread of peer p working on msg: pc is the segment to run next,
\* i the index of a loop over self.spectators, out the envelope that loop
\* sends, turn_seen (history) the turn the ATTACK_ANNOUNCE guard read
Thread(p, pc, msg) ==
  [p |-> p, pc |-> pc, msg |-> msg, i |-> 0, out |-> NoMsg, turn_seen |-> None]

NoThread == Thread(None, "none", NoMsg)
\* the user thread of p, blocked in send
UserThread(p) == Thread(p, "user", NoMsg)

One(x) == SetToBag({x})

\* the message types whose handler at dst only writes a log line
\* (peers.py:595-598 for the Joiner; 665-666, 679-684, 694-699 for the Spectator)
LogsOnly(m) ==
  \/ m.dst = "joiner" /\ m.message_type = "CALCULATION_CONFIRM"
  \/ m.dst = "spec" /\ m.message_type \in
       {"HANDSHAKE_RESPONSE", "TURN_ASSIGNMENT", "ATTACK_ANNOUNCE", "GAME_OVER"}

\* the handler thread the receive loop of m.dst starts for m (network.py:130);
\* a handler that only logs has no effect and is left out
Handler(m) ==
  IF LogsOnly(m) THEN EmptyBag ELSE One(Thread(m.dst, "start", m))

\* Thread t runs one segment that ends in BasePeer.send of envelope m and
\* continues as k once the datagram is acknowledged.  After the last send of
\* a handler (k = NoThread) nothing waits for the acknowledgement, so the
\* datagram in flight and the handler thread not yet started are one state;
\* so it is when all that is left is a loop over self.spectators and no
\* spectator process exists.
Emit(t, m, k) ==
  LET waits == k # NoThread /\ ~(k.pc \in {"bcast", "bs2"} /\ user["spec"] = "absent")
  IN  /\ net' = IF waits THEN net (+) One([m |-> m, k |-> k]) ELSE net
      /\ threads' = (threads (-) One(t)) (+) (IF waits THEN EmptyBag ELSE Handler(m))
      /\ UNCHANGED transport

\* Thread t runs its last segment, which sends nothing
Quiet(t) ==
  /\ net' = net
  /\ threads' = threads (-) One(t)
  /\ UNCHANGED transport

\* the attacks the users may still announce
AttacksLeft ==
  hist.attacks < (IF hist.run = "chat" THEN MaxAttacksChat
                  ELSE IF hist.run = "again" THEN MaxAttacksAgain
                  ELSE IF hist.run = "first" THEN MaxAttacksFirst
                  ELSE IF hist.run = "fallback" THEN MaxAttacksFallback
                  ELSE IF hist.run = "once" THEN MaxAttacksOnce
                  ELSE IF hist.run = "late" THEN MaxAttacksLate
                  ELSE IF hist.run = "twice" THEN MaxAttacksTwice
                  ELSE IF user["spec"] = "absent" THEN MaxAttacks
                  ELSE MaxAttacksWatched)

\* the datagrams in flight and the handler threads not yet finished
Pending == BagCardinality(net) + BagCardinality(threads)

\* the user announces an attack with few enough datagrams and handlers pending
PendingLeft ==
  Pending <= (IF hist.run = "chat" THEN MaxPendingChat
              ELSE IF hist.run = "again" THEN MaxPendingAgain
              ELSE IF hist.run = "first"
                   THEN (IF hist.attacks = 0 /\ joiner.battle_state.turn = None THEN MaxPendingFirst ELSE 0)
              ELSE IF hist.run = "fallback" THEN MaxPendingFallback
              ELSE IF hist.run = "once" THEN MaxPendingOnce
              ELSE IF hist.run = "late" THEN MaxPendingLate
              ELSE IF hist.run = "twice" THEN MaxPendingTwice
              ELSE IF user["spec"] = "absent" THEN MaxPending
              ELSE MaxPendingWatched)

\* BasePeer.send of envelope m by the user thread of peer p
UserSend(p, m) ==
  /\ net' = net (+) One([m |-> m, k |-> UserThread(p)])
  /\ threads' = threads
  /\ user' = [user EXCEPT ![p] = "busy"]
  /\ UNCHANGED transport

\* the 'pokemon' field of the BATTLE_SETUP a player sends: eight fields of its
\* row, without 'types' and 'type_effectiveness'
SetupData(row) ==
  [row EXCEPT !.name = None, !.has_types = FALSE,
              !.type_effectiveness = NoRow.type_effectiveness]

\* the opponent's row stored on BATTLE_SETUP: the receiver's database row if
\* it knows the name, the transmitted data otherwise
OpponentRow(db, pname, pdata) ==
  IF pname \in DOMAIN db THEN db[pname] ELSE pdata

(***************************************************************************)
(* network.py: the values of the transport layer.  Under Spec and          *)
(* SpecWatched a send and its acknowledgement are one step (Emit, Recv) and *)
(* the variables below stay as constructed; SpecNet runs ReliableSender and *)
(* BasePeer statement by statement.                                         *)
(***************************************************************************)
\* network.py:10
RETRANSMIT_RETRIES == 3

\* the peers with a bound socket and a running _recv_loop, and an address
\* nothing listens on
NetPeers == {"host", "joiner"}
NoListener == "nobody"

\* the threads of a peer that call send: the command loop and a handler
Callers == NetPeers \X {"user", "handler"}

\* the values make_seq can return within the bounds of either run
SeqNums == 1 .. (MaxUserSends + MaxRepliesCalm)

\* a key the envelope does not have; an ack_number int() raises on
Absent == -1
NotInt == -2

\* a datagram: kind "json" decodes to an envelope, kind "bytes" does not
Datagram(kind, mt, seq, ack, src, dst) ==
  [ kind |-> kind, message_type |-> mt, sequence_number |-> seq,
    ack_number |-> ack, src |-> src, dst |-> dst ]

NoDatagram == Datagram("none", None, Absent, Absent, None, None)

\* the envelope send stamps (network.py:145-147), of any type but ACK
Data(seq, src, dst) == Datagram("json", "DATA", seq, Absent, src, dst)

\* the acknowledgement of sequence number n (network.py:114)
Ack(n, src, dst) == Datagram("json", "ACK", Absent, n, src, dst)

\* no Event registered under a sequence number
NoEvent == <<None, None>>

\* a thread outside send; ret keeps the value its last call returned
IdleSender ==
  [ pc |-> "idle", dst |-> None, reliable |-> TRUE, r |-> 0, seq |-> 0,
    tries |-> 0, ev |-> FALSE, sent |-> 0, ret |-> None ]

NoRx == [d |-> NoDatagram, acked |-> FALSE]

\* faulty: the run may see faults; garbage: undecodable datagrams received;
\* taken: the envelopes, other than ACKs, the receive loops have decoded
NHistInit ==
  [ faulty |-> TRUE, calls |-> 0, replies |-> 0, faults |-> 0, garbage |-> 0,
    issued |-> [p \in NetPeers |-> <<>>], handled |-> {}, taken |-> {} ]

\* BasePeer.__init__ (network.py:69-85) and ReliableSender.__init__ (24-27)
\* no call of calculate_damage is followed
NoCalc ==
  [attacker_row |-> NoRow, defender_row |-> NoRow, move |-> NoMove, err |-> 0,
   calls |-> {}]

TransportInit ==
  /\ seq_counter = [p \in NetPeers |-> 0]
  /\ waiters = [p \in NetPeers |-> [n \in SeqNums |-> NoEvent]]
  /\ senders = [c \in Callers |-> IdleSender]
  /\ sock = EmptyBag
  /\ rx = [p \in NetPeers |-> NoRx]
  /\ nhist = NHistInit
  /\ calc = NoCalc

(***************************************************************************)
(* Construction: HostPeer.__init__, JoinerPeer.__init__,                    *)
(* SpectatorPeer.__init__.                                                  *)
(***************************************************************************)
HostInit(pname) ==
  [ local_pokemon_name |-> pname,
    local_pokemon_row  |-> pokemon_db("std")[pname],
    battle_state |-> [host_hp |-> pokemon_db("std")[pname].hp, joiner_hp |-> NoHp,
                      turn |-> "host", game_over |-> FALSE],
    joiner_pokemon_name |-> None,
    joiner_pokemon_row  |-> NoRow,
    last_announced_move |-> None,
    spectators  |-> <<>>,
    remote_addr |-> None ]

JoinerInit(pname, csv) ==
  [ csv |-> csv,
    local_pokemon_name |-> pname,
    local_pokemon_row  |-> pokemon_db(csv)[pname],
    battle_state |-> [joiner_hp |-> pokemon_db(csv)[pname].hp, host_hp |-> NoHp,
                      turn |-> None, game_over |-> FALSE],
    host_pokemon_name |-> None,
    host_pokemon_row  |-> NoRow,
    last_announced_move |-> None,
    remote_addr |-> None ]

SpectatorInit ==
  [ host_pokemon_name |-> None, joiner_pokemon_name |-> None,
    host_hp |-> NoHp, joiner_hp |-> NoHp ]

\* attacks: announce_attack calls that passed their guard; last: the role
\* that announced the latest attack; flips: changes of the Host's turn since
\* an ATTACK_ANNOUNCE last passed its receiver's guard (counted up to 2);
\* applied: <<defender, turn its guard read>> of every damage applied on
\* ATTACK_ANNOUNCE; rejected: the peers that turned an ATTACK_ANNOUNCE down;
\* game_overs: GAME_OVER envelopes originated toward the opponent (up to 2);
\* told: the spectators a GAME_OVER envelope was sent to; run: "chat" if
\* the users of the run use the chat command, "again" if datagrams are
\* retransmitted after delivery, "first" for the start of a match, "late",
\* "twice" if a BATTLE_SETUP, a SPECTATOR_REQUEST is delivered again, "once"
\* if the attacks do not overlap, "fallback" if the Joiner's csv lacks the
\* Host's combatant; chats: send_chat calls that sent;
\* duplicates: envelopes delivered twice; subtracted: the handlers of such an
\* ATTACK_ANNOUNCE or DEFENSE_ANNOUNCE that subtracted its damage; before
\* (kept in a run "once"): the attacker's copy of the defender's hit points
\* when it announced the latest attack
HistInit ==
  [ attacks |-> 0, last |-> None, flips |-> 0, applied |-> {}, rejected |-> {},
    game_overs |-> 0, told |-> {}, run |-> "match", chats |-> 0,
    duplicates |-> 0, subtracted |-> 0, before |-> NoHp ]

UpTo2(n) == IF n >= 2 THEN 2 ELSE n

Init ==
  /\ \E c \in Matches :
       /\ host = HostInit(c[1])
       /\ joiner = JoinerInit(c[2], c[3])
  /\ spectator = SpectatorInit
  /\ net = EmptyBag
  /\ threads = EmptyBag
  /\ user = [host |-> "idle", joiner |-> "init", spec |-> "absent"]
  /\ hist = HistInit
  /\ TransportInit

(***************************************************************************)
(* network.py: the receive loop.                                            *)
(***************************************************************************)
\* _recv_loop of e.m.dst takes datagram e, acknowledges it, which releases
\* the sender blocked in send_with_ack, and starts the handler thread
Recv(e) ==
  /\ BagIn(e, net)
  /\ net' = net (-) One(e)
  /\ threads' = (threads (+) Handler(e.m))
                  (+) (IF e.k.pc = "user" THEN EmptyBag ELSE One(e.k))
  /\ user' = IF e.k.pc = "user" THEN [user EXCEPT ![e.k.p] = "idle"] ELSE user
  /\ UNCHANGED <<host, joiner, spectator, hist>>
  /\ UNCHANGED transport

\* 1 for a handler of an envelope that is delivered twice (history)
Again(t) == IF t.msg.again THEN 1 ELSE 0

\* A datagram reaches e.m.dst and its handler starts, but the acknowledgement
\* is lost: send_with_ack times out and transmits the datagram again
\* (network.py:39-59), and _recv_loop starts a handler for every copy
\* (network.py:112-130)
Redeliver(e) ==
  /\ BagIn(e, net)
  /\ \/ hist.run = "again"
     \/ hist.run = "late" /\ e.m.message_type = "BATTLE_SETUP"
     \/ hist.run = "twice" /\ e.m.message_type = "SPECTATOR_REQUEST"
  /\ hist.duplicates < MaxDuplicates
  /\ e.m.dst \in {"host", "joiner"} /\ ~LogsOnly(e.m)
  /\ net' = (net (-) One(e)) (+) One([e EXCEPT !.m.again = TRUE])
  /\ threads' = threads (+) Handler([e.m EXCEPT !.again = TRUE])
  /\ hist' = [hist EXCEPT !.duplicates = @ + 1]
  /\ UNCHANGED <<host, joiner, spectator, user>>
  /\ UNCHANGED transport

\* the same for a datagram whose first copy has started a handler thread that
\* has not run yet
RedeliverLast(t) ==
  /\ BagIn(t, threads) /\ t.pc = "start"
  /\ \/ hist.run = "again"
     \/ hist.run = "late" /\ t.msg.message_type = "BATTLE_SETUP"
     \/ hist.run = "twice" /\ t.msg.message_type = "SPECTATOR_REQUEST"
  /\ hist.duplicates < MaxDuplicates
  /\ t.p \in {"host", "joiner"}
  /\ threads' = (threads (-) One(t)) (+) One([t EXCEPT !.msg.again = TRUE])
                   (+) One([t EXCEPT !.msg.again = TRUE])
  /\ hist' = [hist EXCEPT !.duplicates = @ + 1]
  /\ UNCHANGED <<host, joiner, spectator, net, user>>
  /\ UNCHANGED transport

Starts(t, p, mt) ==
  /\ BagIn(t, threads)
  /\ t.p = p /\ t.pc = "start" /\ t.msg.message_type = mt

At(t, p, pc) ==
  /\ BagIn(t, threads)
  /\ t.p = p /\ t.pc = pc

(***************************************************************************)
(* peers.py: HostPeer.handle_message.                                       *)
(***************************************************************************)
IsRow(row) == row # NoRow

\* a loop over self.spectators that sends to none of them
MoreSpectators_None(t) == FALSE

\* one round of `for spec in self.spectators: self.send(t.out, spec)`: the
\* send to the next spectator, FALSE when the loop is over
MoreSpectators(t) == t.i < Len(host.spectators)
SendToSpectator(t, m, k) ==
  Emit(t, [m EXCEPT !.src = "host", !.dst = host.spectators[t.i + 1]], k)

\* HANDSHAKE_REQUEST (peers.py:69-76)
HostHandshakeRequest(t) ==
  /\ Starts(t, "host", "HANDSHAKE_REQUEST")
  /\ host' = [host EXCEPT !.remote_addr = t.msg.src]
  /\ Emit(t, Msg("HANDSHAKE_RESPONSE", "host", t.msg.src), NoThread)
  /\ UNCHANGED <<joiner, spectator, user, hist>>

\* a catch-up that sends the Host's own setup before the Joiner's
HostSpectatorRequest_HostFirst(t) ==
  /\ BagIn(t, threads) /\ t.p = "host"
  /\ t.msg.message_type = "SPECTATOR_REQUEST"
  /\ CASE t.pc = "start" ->
            /\ host' = [host EXCEPT !.spectators = Append(@, t.msg.src)]
            /\ Emit(t, [Msg("HANDSHAKE_RESPONSE", "host", t.msg.src) EXCEPT
                       !.role = "spectator"], [t EXCEPT !.pc = "sr1"])
       [] t.pc = "sr1" ->
            /\ IF IsRow(host.joiner_pokemon_row)
               THEN Emit(t, SetupMsg("host", t.msg.src, host.local_pokemon_name,
                                     host.local_pokemon_row),
                         [t EXCEPT !.pc = "sr2"])
               ELSE Quiet(t)
            /\ host' = host
       [] t.pc = "sr2" ->
            /\ Emit(t, SetupMsg("host", t.msg.src, host.joiner_pokemon_name,
                                 host.joiner_pokemon_row), NoThread)
            /\ host' = host
  /\ UNCHANGED <<joiner, spectator, user, hist>>

\* SPECTATOR_REQUEST (peers.py:77-96)
HostSpectatorRequest(t) ==
  /\ BagIn(t, threads) /\ t.p = "host"
  /\ t.msg.message_type = "SPECTATOR_REQUEST"
  /\ CASE t.pc = "start" ->
            /\ host' = [host EXCEPT !.spectators = Append(@, t.msg.src)]
            /\ Emit(t, [Msg("HANDSHAKE_RESPONSE", "host", t.msg.src) EXCEPT
                       !.role = "spectator"], [t EXCEPT !.pc = "sr1"])
       [] t.pc = "sr1" ->
            /\ IF IsRow(host.joiner_pokemon_row)
               THEN Emit(t, SetupMsg("host", t.msg.src, host.joiner_pokemon_name,
                                     host.joiner_pokemon_row),
                         [t EXCEPT !.pc = "sr2"])
               ELSE Quiet(t)
            /\ host' = host
       [] t.pc = "sr2" ->
            /\ Emit(t, SetupMsg("host", t.msg.src, host.local_pokemon_name,
                                 host.local_pokemon_row), NoThread)
            /\ host' = host
  /\ UNCHANGED <<joiner, spectator, user, hist>>

\* the joiner's data taken from a BATTLE_SETUP (peers.py:103-112)
HostStoreSetup(h, msg) ==
  IF msg.pokemon_name # None /\ msg.pokemon # NoRow
  THEN [h EXCEPT !.battle_state.joiner_hp = msg.pokemon.hp,
                 !.joiner_pokemon_name = msg.pokemon_name,
                 !.joiner_pokemon_row =
                    OpponentRow(pokemon_db("std"), msg.pokemon_name, msg.pokemon)]
  ELSE h

\* BATTLE_SETUP (peers.py:97-143)
HostBattleSetup(t) ==
  /\ BagIn(t, threads) /\ t.p = "host"
  /\ t.msg.message_type = "BATTLE_SETUP"
  /\ LET my_setup == SetupMsg("host", t.msg.src, host.local_pokemon_name,
                              SetupData(host.local_pokemon_row))
         turn_msg == [Msg("TURN_ASSIGNMENT", "host", t.msg.src) EXCEPT
                        !.current_turn = "host"]
     IN CASE t.pc = "start" ->
               /\ host' = HostStoreSetup([host EXCEPT !.remote_addr = t.msg.src], t.msg)
               /\ Emit(t, my_setup, [t EXCEPT !.pc = "bs1", !.out = my_setup])
          [] t.pc = "bs1" ->
               /\ Emit(t, turn_msg, [t EXCEPT !.pc = "bs2"])
               /\ host' = host
          [] t.pc = "bs2" ->
               /\ IF MoreSpectators(t)
                  THEN SendToSpectator(t, t.out, [t EXCEPT !.pc = "bs3"])
                  ELSE Quiet(t)
               /\ host' = host
          [] t.pc = "bs3" ->
               /\ SendToSpectator(t, turn_msg, [t EXCEPT !.pc = "bs2", !.i = @ + 1])
               /\ host' = host
  /\ UNCHANGED <<joiner, spectator, user, hist>>

\* a loop `for spec in self.spectators: self.send(t.out, spec)` that ends its
\* handler (peers.py:186-187, 213-214, 299-300, 324-325)
HostBroadcast(t) ==
  /\ At(t, "host", "bcast")
  /\ IF MoreSpectators(t)
     THEN SendToSpectator(t, t.out, [t EXCEPT !.i = @ + 1])
     ELSE Quiet(t)
  /\ UNCHANGED <<host, joiner, spectator, user, hist>>

\* a CALCULATION_REPORT envelope (peers.py:176-183, 203-210, 499-506, 522-529)
Report(msg, src, attacker, damage, hp) ==
  [Msg("CALCULATION_REPORT", src, msg.src) EXCEPT
     !.attacker = attacker, !.move_used = msg.move_name, !.damage_dealt = damage,
     !.defender_hp_remaining = hp, !.exch = msg.exch]

\* a RESOLUTION_REQUEST that echoes the reported damage
ResolutionRequest_Echo(src, msg, expected) ==
  [Msg("RESOLUTION_REQUEST", src, msg.src) EXCEPT
     !.attacker = msg.attacker, !.move_used = msg.move_used,
     !.damage_dealt = msg.damage_dealt, !.exch = msg.exch]

\* the RESOLUTION_REQUEST envelope answering report msg, carrying the
\* receiver's own value (peers.py:304-310, 586-592)
ResolutionRequest(src, msg, expected) ==
  [Msg("RESOLUTION_REQUEST", src, msg.src) EXCEPT
     !.attacker = msg.attacker, !.move_used = msg.move_used,
     !.damage_dealt = expected, !.exch = msg.exch]

\* the guard of the Host's ATTACK_ANNOUNCE handler (peers.py:153)
HostAcceptsAttack == host.battle_state.turn = "joiner"

\* damage to the Host's own combatant (peers.py:174-175, 250-251)
HostSetHostHp(h, hp) ==
  [h EXCEPT !.local_pokemon_row.hp = hp, !.battle_state.host_hp = hp]

\* damage to the Host's copy of the Joiner's combatant (peers.py:201-202, 246-247)
HostSetJoinerHp(h, hp) ==
  [h EXCEPT !.joiner_pokemon_row.hp = hp, !.battle_state.joiner_hp = hp]

\* ATTACK_ANNOUNCE (peers.py:146-187)
HostAttackAnnounce(t) ==
  /\ BagIn(t, threads) /\ t.p = "host"
  /\ t.msg.message_type = "ATTACK_ANNOUNCE" /\ t.pc \in {"start", "aa1"}
  /\ LET move   == MovesGet(t.msg.move_name)
         damage == calculate_damage(host.joiner_pokemon_row, host.local_pokemon_row, move)
         hp     == Max(0, host.local_pokemon_row.hp - damage)
         report == Report(t.msg, "host", host.joiner_pokemon_name, damage, hp)
     IN CASE t.pc = "start" /\ ~HostAcceptsAttack ->
               /\ Quiet(t) /\ UNCHANGED host
               /\ hist' = [hist EXCEPT !.rejected = @ \cup {"host"}]
          [] t.pc = "start" /\ HostAcceptsAttack ->
               /\ Emit(t, [Msg("DEFENSE_ANNOUNCE", "host", t.msg.src) EXCEPT
                          !.exch = t.msg.exch],
                       [t EXCEPT !.pc = "aa1", !.turn_seen = host.battle_state.turn])
               /\ hist' = [hist EXCEPT !.flips = 0]
               /\ host' = host
          [] t.pc = "aa1" /\ MoreSpectators(t) ->
               /\ SendToSpectator(t, t.msg, [t EXCEPT !.i = @ + 1])
               /\ UNCHANGED <<host, hist>>
          [] t.pc = "aa1" /\ ~MoreSpectators(t) ->
               IF move = NoMove \/ ~IsRow(host.joiner_pokemon_row) \/ damage = Raise
               THEN Quiet(t) /\ UNCHANGED <<host, hist>>
               ELSE /\ host' = HostSetHostHp(host, hp)
                    /\ Emit(t, report, [t EXCEPT !.pc = "bcast", !.i = 0, !.out = report])
                    /\ hist' = [hist EXCEPT !.applied = @ \cup {<<"host", t.turn_seen>>},
                                            !.subtracted = @ + Again(t)]
  /\ UNCHANGED <<joiner, spectator, user>>

\* DEFENSE_ANNOUNCE (peers.py:189-214)
HostDefenseAnnounce(t) ==
  /\ Starts(t, "host", "DEFENSE_ANNOUNCE")
  /\ LET move_name == host.last_announced_move
         move   == MovesGet(move_name)
         damage == calculate_damage(host.local_pokemon_row, host.joiner_pokemon_row, move)
         hp     == Max(0, host.joiner_pokemon_row.hp - damage)
         report == Report([t.msg EXCEPT !.move_name = move_name], "host",
                          host.local_pokemon_name, damage, hp)
     IN IF move_name = None \/ move = NoMove \/ ~IsRow(host.joiner_pokemon_row)
           \/ damage = Raise
        THEN Quiet(t) /\ UNCHANGED <<host, hist>>
        ELSE /\ host' = HostSetJoinerHp(host, hp)
             /\ Emit(t, report, [t EXCEPT !.pc = "bcast", !.out = report])
             /\ hist' = [hist EXCEPT !.subtracted = @ + Again(t)]
  /\ UNCHANGED <<joiner, spectator, user>>

\* the Host's recomputation of a reported damage (peers.py:226-236): by the
\* attacker's name the report is about the Host's own attack or the Joiner's
HostExpected(msg) ==
  IF ~IsRow(host.joiner_pokemon_row) THEN Missing
  ELSE IF msg.attacker = host.local_pokemon_name
       THEN calculate_damage(host.local_pokemon_row, host.joiner_pokemon_row,
                             MovesGet(msg.move_used))
       ELSE calculate_damage(host.joiner_pokemon_row, host.local_pokemon_row,
                             MovesGet(msg.move_used))

\* the hit points a validated report sets (peers.py:244-251)
HostApplyReport(h, msg) ==
  IF msg.attacker = h.local_pokemon_name
  THEN HostSetJoinerHp(h, msg.defender_hp_remaining)
  ELSE HostSetHostHp(h, msg.defender_hp_remaining)

GameOverMsg(dst, winner, reason) ==
  [Msg("GAME_OVER", "host", dst) EXCEPT !.winner = winner, !.reason = reason]

TurnMsg(dst, turn) ==
  [Msg("TURN_ASSIGNMENT", "host", dst) EXCEPT !.current_turn = turn]

\* the Host's turn becomes `turn` (peers.py:292, 317, 332)
HostSetTurn(h, turn) == [h EXCEPT !.battle_state.turn = turn]

\* the Host's game-over check (peers.py:256, 271)
HostSeesGameOver ==
  \/ host.local_pokemon_row.hp <= 0
  \/ IsRow(host.joiner_pokemon_row) /\ host.joiner_pokemon_row.hp <= 0

\* CALCULATION_REPORT (peers.py:216-310)
HostCalculationReport(t) ==
  /\ BagIn(t, threads) /\ t.p = "host"
  /\ t.msg.message_type = "CALCULATION_REPORT" /\ t.pc \in {"start", "cr1", "cr2"}
  /\ LET expected == HostExpected(t.msg)
         fainted  == host.local_pokemon_row.hp <= 0
         game_over_msg ==
           IF fainted
           THEN GameOverMsg(t.msg.src,
                            IF host.joiner_pokemon_name # None
                            THEN host.joiner_pokemon_name ELSE "Joiner",
                            host.local_pokemon_name)
           ELSE GameOverMsg(t.msg.src, host.local_pokemon_name,
                            host.joiner_pokemon_name)
         turn_msg == TurnMsg(t.msg.src, "host")
     IN CASE t.pc = "start" /\ expected \in {Missing, Raise} ->
               Quiet(t) /\ UNCHANGED <<host, hist>>
          [] t.pc = "start" /\ expected \notin {Missing, Raise}
                            /\ expected = t.msg.damage_dealt ->
               /\ host' = HostApplyReport(host, t.msg)
               /\ Emit(t, [Msg("CALCULATION_CONFIRM", "host", t.msg.src) EXCEPT
                          !.exch = t.msg.exch], [t EXCEPT !.pc = "cr1"])
               /\ hist' = hist
          [] t.pc = "start" /\ expected \notin {Missing, Raise}
                            /\ expected # t.msg.damage_dealt ->
               /\ Emit(t, ResolutionRequest("host", t.msg, expected), NoThread)
               /\ UNCHANGED <<host, hist>>
          [] t.pc = "cr1" /\ HostSeesGameOver ->
               /\ Emit(t, game_over_msg, [t EXCEPT !.pc = "cr2", !.out = game_over_msg])
               /\ hist' = [hist EXCEPT !.game_overs = UpTo2(@ + 1)]
               /\ host' = host
          [] t.pc = "cr1" /\ ~HostSeesGameOver
                          /\ t.msg.attacker # host.local_pokemon_name ->
               /\ host' = HostSetTurn(host, "host")
               /\ Emit(t, turn_msg, [t EXCEPT !.pc = "bcast", !.out = turn_msg])
               /\ hist' = [hist EXCEPT !.flips =
                             IF host.battle_state.turn # "host" THEN UpTo2(@ + 1) ELSE @]
          [] t.pc = "cr1" /\ ~HostSeesGameOver
                          /\ t.msg.attacker = host.local_pokemon_name ->
               Quiet(t) /\ UNCHANGED <<host, hist>>
          [] t.pc = "cr2" /\ MoreSpectators(t) ->
               /\ SendToSpectator(t, t.out, [t EXCEPT !.i = @ + 1])
               /\ hist' = [hist EXCEPT !.told = @ \cup {host.spectators[t.i + 1]}]
               /\ host' = host
          [] t.pc = "cr2" /\ ~MoreSpectators(t) ->
               /\ host' = [host EXCEPT !.battle_state.game_over = TRUE]
               /\ Quiet(t) /\ UNCHANGED hist
  /\ UNCHANGED <<joiner, spectator, user>>

\* CALCULATION_CONFIRM (peers.py:312-326)
HostCalculationConfirm(t) ==
  /\ Starts(t, "host", "CALCULATION_CONFIRM")
  /\ LET turn_msg == TurnMsg(t.msg.src, "joiner")
     IN IF host.battle_state.turn = "host"
        THEN /\ host' = HostSetTurn(host, "joiner")
             /\ Emit(t, turn_msg, [t EXCEPT !.pc = "bcast", !.out = turn_msg])
             /\ hist' = [hist EXCEPT !.flips = UpTo2(@ + 1)]
        ELSE Quiet(t) /\ UNCHANGED <<host, hist>>
  /\ UNCHANGED <<joiner, spectator, user>>

\* RESOLUTION_REQUEST (peers.py:328-338)
HostResolutionRequest(t) ==
  /\ BagIn(t, threads) /\ t.p = "host"
  /\ t.msg.message_type = "RESOLUTION_REQUEST" /\ t.pc \in {"start", "rr1"}
  /\ CASE t.pc = "start" ->
            /\ Emit(t, [Msg("CALCULATION_CONFIRM", "host", t.msg.src) EXCEPT
                       !.exch = t.msg.exch], [t EXCEPT !.pc = "rr1"])
            /\ UNCHANGED <<host, hist>>
       [] t.pc = "rr1" ->
            /\ host' = HostSetTurn(host, "joiner")
            /\ Emit(t, TurnMsg(t.msg.src, "joiner"), NoThread)
            /\ hist' = [hist EXCEPT !.flips =
                          IF host.battle_state.turn # "joiner" THEN UpTo2(@ + 1) ELSE @]
  /\ UNCHANGED <<joiner, spectator, user>>

\* TURN_ASSIGNMENT (peers.py:341-346); no peer sends the Host one
HostTurnAssignment(t) ==
  /\ Starts(t, "host", "TURN_ASSIGNMENT")
  /\ host' = HostSetTurn(host, t.msg.current_turn)
  /\ Quiet(t) /\ UNCHANGED <<joiner, spectator, user, hist>>

\* GAME_OVER (peers.py:348-355); no peer sends the Host one
HostGameOver(t) ==
  /\ Starts(t, "host", "GAME_OVER")
  /\ host' = [host EXCEPT !.battle_state.game_over = TRUE]
  /\ Quiet(t) /\ UNCHANGED <<joiner, spectator, user, hist>>

\* announce_attack (peers.py:379-391), called by the user thread
HostAnnounceAttack(move_name) ==
  /\ user["host"] = "idle"
  /\ AttacksLeft /\ PendingLeft
  /\ host.remote_addr # None
  /\ host.battle_state.turn = "host"
  /\ host' = [host EXCEPT !.last_announced_move = move_name]
  /\ UserSend("host", [Msg("ATTACK_ANNOUNCE", "host", host.remote_addr) EXCEPT
                         !.move_name = move_name, !.exch = "host"])
  /\ hist' = [hist EXCEPT !.attacks = @ + 1, !.last = "host",
                          !.before = IF hist.run = "once"
                                     THEN host.battle_state.joiner_hp ELSE @]
  /\ UNCHANGED <<joiner, spectator>>

(***************************************************************************)
(* peers.py: JoinerPeer.                                                    *)
(***************************************************************************)
\* start_handshake (peers.py:415-417), called once by the user thread
JoinerStartHandshake ==
  /\ user["joiner"] = "init"
  /\ UserSend("joiner", Msg("HANDSHAKE_REQUEST", "joiner", "host"))
  /\ UNCHANGED <<host, joiner, spectator, hist>>

\* HANDSHAKE_RESPONSE (peers.py:421-446)
JoinerHandshakeResponse(t) ==
  /\ Starts(t, "joiner", "HANDSHAKE_RESPONSE")
  /\ joiner' = [joiner EXCEPT !.remote_addr = t.msg.src]
  /\ Emit(t, SetupMsg("joiner", "host", joiner.local_pokemon_name,
                       SetupData(joiner.local_pokemon_row)), NoThread)
  /\ UNCHANGED <<host, spectator, user, hist>>

\* BATTLE_SETUP (peers.py:448-462)
JoinerBattleSetup(t) ==
  /\ Starts(t, "joiner", "BATTLE_SETUP")
  /\ joiner' = [joiner EXCEPT
                  !.battle_state.host_hp = t.msg.pokemon.hp,
                  !.host_pokemon_name = t.msg.pokemon_name,
                  !.host_pokemon_row =
                     OpponentRow(pokemon_db(joiner.csv), t.msg.pokemon_name,
                                 t.msg.pokemon)]
  /\ Quiet(t) /\ UNCHANGED <<host, spectator, user, hist>>

\* a TURN_ASSIGNMENT handler that gives the first turn to the Joiner
JoinerTurnAssignment_TakesJoiner(t) ==
  /\ Starts(t, "joiner", "TURN_ASSIGNMENT")
  /\ joiner' = [joiner EXCEPT !.battle_state.turn = "joiner"]
  /\ Quiet(t) /\ UNCHANGED <<host, spectator, user, hist>>

\* TURN_ASSIGNMENT (peers.py:466-471)
JoinerTurnAssignment(t) ==
  /\ Starts(t, "joiner", "TURN_ASSIGNMENT")
  /\ joiner' = [joiner EXCEPT !.battle_state.turn = t.msg.current_turn]
  /\ Quiet(t) /\ UNCHANGED <<host, spectator, user, hist>>

\* a guard that lets every ATTACK_ANNOUNCE through
JoinerAcceptsAttack_NoGuard == TRUE

\* the guard of the Joiner's ATTACK_ANNOUNCE handler (peers.py:482)
JoinerAcceptsAttack == joiner.battle_state.turn = "host"

\* damage to the Joiner's own combatant (peers.py:497-498, 565-566)
JoinerSetJoinerHp(j, hp) ==
  [j EXCEPT !.local_pokemon_row.hp = hp, !.battle_state.joiner_hp = hp]

\* damage to the Joiner's copy of the Host's combatant (peers.py:520-521, 561-562)
JoinerSetHostHp(j, hp) ==
  [j EXCEPT !.host_pokemon_row.hp = hp, !.battle_state.host_hp = hp]

\* ATTACK_ANNOUNCE (peers.py:474-507)
JoinerAttackAnnounce(t) ==
  /\ BagIn(t, threads) /\ t.p = "joiner"
  /\ t.msg.message_type = "ATTACK_ANNOUNCE" /\ t.pc \in {"start", "ja1"}
  /\ LET move   == MovesGet(t.msg.move_name)
         damage == calculate_damage(joiner.host_pokemon_row, joiner.local_pokemon_row,
                                    move)
         hp     == Max(0, joiner.local_pokemon_row.hp - damage)
         report == Report(t.msg, "joiner", joiner.host_pokemon_name, damage, hp)
     IN CASE t.pc = "start" /\ ~JoinerAcceptsAttack ->
               /\ Quiet(t) /\ UNCHANGED joiner
               /\ hist' = [hist EXCEPT !.rejected = @ \cup {"joiner"}]
          [] t.pc = "start" /\ JoinerAcceptsAttack ->
               /\ Emit(t, [Msg("DEFENSE_ANNOUNCE", "joiner", t.msg.src) EXCEPT
                          !.exch = t.msg.exch],
                       [t EXCEPT !.pc = "ja1", !.turn_seen = joiner.battle_state.turn])
               /\ hist' = [hist EXCEPT !.flips = 0]
               /\ joiner' = joiner
          [] t.pc = "ja1" ->
               IF move = NoMove \/ ~IsRow(joiner.host_pokemon_row) \/ damage = Raise
               THEN Quiet(t) /\ UNCHANGED <<joiner, hist>>
               ELSE /\ joiner' = JoinerSetJoinerHp(joiner, hp)
                    /\ Emit(t, report, NoThread)
                    /\ hist' = [hist EXCEPT !.applied = @ \cup {<<"joiner", t.turn_seen>>},
                                            !.subtracted = @ + Again(t)]
  /\ UNCHANGED <<host, spectator, user>>

\* DEFENSE_ANNOUNCE (peers.py:509-530)
JoinerDefenseAnnounce(t) ==
  /\ Starts(t, "joiner", "DEFENSE_ANNOUNCE")
  /\ LET move_name == joiner.last_announced_move
         move   == MovesGet(move_name)
         damage == calculate_damage(joiner.local_pokemon_row, joiner.host_pokemon_row,
                                    move)
         hp     == Max(0, joiner.host_pokemon_row.hp - damage)
         report == Report([t.msg EXCEPT !.move_name = move_name], "joiner",
                          joiner.local_pokemon_name, damage, hp)
     IN IF move_name = None \/ move = NoMove \/ ~IsRow(joiner.host_pokemon_row)
           \/ damage = Raise
        THEN Quiet(t) /\ UNCHANGED <<joiner, hist>>
        ELSE /\ joiner' = JoinerSetHostHp(joiner, hp)
             /\ Emit(t, report, NoThread)
             /\ hist' = [hist EXCEPT !.subtracted = @ + Again(t)]
  /\ UNCHANGED <<host, spectator, user>>

\* the Joiner's recomputation of a reported damage (peers.py:541-551)
JoinerExpected(msg) ==
  IF ~IsRow(joiner.host_pokemon_row) THEN Missing
  ELSE IF msg.attacker = joiner.local_pokemon_name
       THEN calculate_damage(joiner.local_pokemon_row, joiner.host_pokemon_row,
                             MovesGet(msg.move_used))
       ELSE calculate_damage(joiner.host_pokemon_row, joiner.local_pokemon_row,
                             MovesGet(msg.move_used))

\* a validated report that also hands the Joiner the turn
JoinerApplyReport_TakesTurn(j, msg) ==
  IF msg.attacker = j.local_pokemon_name
  THEN [JoinerSetHostHp(j, msg.defender_hp_remaining) EXCEPT !.battle_state.turn = "host"]
  ELSE [JoinerSetJoinerHp(j, msg.defender_hp_remaining) EXCEPT !.battle_state.turn = "joiner"]

\* the hit points a validated report sets (peers.py:559-566)
JoinerApplyReport(j, msg) ==
  IF msg.attacker = j.local_pokemon_name
  THEN JoinerSetHostHp(j, msg.defender_hp_remaining)
  ELSE JoinerSetJoinerHp(j, msg.defender_hp_remaining)

\* the Joiner's game-over check (peers.py:569)
JoinerSeesGameOver(j) ==
  \/ j.local_pokemon_row.hp <= 0
  \/ IsRow(j.host_pokemon_row) /\ j.host_pokemon_row.hp <= 0

\* CALCULATION_REPORT (peers.py:532-593)
JoinerCalculationReport(t) ==
  /\ Starts(t, "joiner", "CALCULATION_REPORT")
  /\ LET expected == JoinerExpected(t.msg)
         applied  == JoinerApplyReport(joiner, t.msg)
     IN CASE expected \in {Missing, Raise} ->
               Quiet(t) /\ UNCHANGED joiner
          [] expected \notin {Missing, Raise} /\ expected = t.msg.damage_dealt ->
               IF JoinerSeesGameOver(applied)
               THEN /\ joiner' = [applied EXCEPT !.battle_state.game_over = TRUE]
                    /\ Quiet(t)
               ELSE /\ joiner' = applied
                    /\ Emit(t, [Msg("CALCULATION_CONFIRM", "joiner", t.msg.src) EXCEPT
                               !.exch = t.msg.exch], NoThread)
          [] expected \notin {Missing, Raise} /\ expected # t.msg.damage_dealt ->
               /\ Emit(t, ResolutionRequest("joiner", t.msg, expected), NoThread)
               /\ joiner' = joiner
  /\ UNCHANGED <<host, spectator, user, hist>>

\* RESOLUTION_REQUEST (peers.py:600-603)
JoinerResolutionRequest(t) ==
  /\ Starts(t, "joiner", "RESOLUTION_REQUEST")
  /\ Emit(t, [Msg("CALCULATION_CONFIRM", "joiner", "host") EXCEPT
             !.exch = t.msg.exch], NoThread)
  /\ UNCHANGED <<host, joiner, spectator, user, hist>>

\* GAME_OVER (peers.py:617-624)
JoinerGameOver(t) ==
  /\ Starts(t, "joiner", "GAME_OVER")
  /\ joiner' = IF ~joiner.battle_state.game_over
               THEN [joiner EXCEPT !.battle_state.game_over = TRUE]
               ELSE joiner
  /\ Quiet(t) /\ UNCHANGED <<host, spectator, user, hist>>

\* announce_attack (peers.py:637-645), called by the user thread
JoinerAnnounceAttack(move_name) ==
  /\ user["joiner"] = "idle"
  /\ AttacksLeft /\ PendingLeft
  /\ joiner.battle_state.turn = "joiner"
  /\ joiner' = [joiner EXCEPT !.last_announced_move = move_name]
  /\ UserSend("joiner", [Msg("ATTACK_ANNOUNCE", "joiner", "host") EXCEPT
                           !.move_name = move_name, !.exch = "joiner"])
  /\ hist' = [hist EXCEPT !.attacks = @ + 1, !.last = "joiner",
                          !.before = IF hist.run = "once"
                                     THEN joiner.battle_state.host_hp ELSE @]
  /\ UNCHANGED <<host, spectator>>

(***************************************************************************)
(* peers.py: SpectatorPeer.                                                 *)
(***************************************************************************)
\* join_as_spectator (peers.py:659-661), called once by the user thread
SpectatorJoin ==
  /\ user["spec"] = "init"
  /\ Pending <= (IF hist.run \in {"chat", "first"} THEN MaxPendingChat
                 ELSE IF hist.run = "twice" THEN MaxPendingTwice
                 ELSE MaxPending)
  /\ UserSend("spec", Msg("SPECTATOR_REQUEST", "spec", "host"))
  /\ UNCHANGED <<host, joiner, spectator, hist>>

\* BATTLE_SETUP (peers.py:667-678)
SpectatorBattleSetup(t) ==
  /\ Starts(t, "spec", "BATTLE_SETUP")
  /\ spectator' =
       IF spectator.host_pokemon_name = None
       THEN [spectator EXCEPT !.host_pokemon_name = t.msg.pokemon_name,
                              !.host_hp = t.msg.pokemon.hp]
       ELSE [spectator EXCEPT !.joiner_pokemon_name = t.msg.pokemon_name,
                              !.joiner_hp = t.msg.pokemon.hp]
  /\ Quiet(t) /\ UNCHANGED <<host, joiner, user, hist>>

\* CALCULATION_REPORT (peers.py:685-693)
SpectatorCalculationReport(t) ==
  /\ Starts(t, "spec", "CALCULATION_REPORT")
  /\ spectator' =
       IF t.msg.attacker = spectator.host_pokemon_name
       THEN [spectator EXCEPT !.joiner_hp = t.msg.defender_hp_remaining]
       ELSE [spectator EXCEPT !.host_hp = t.msg.defender_hp_remaining]
  /\ Quiet(t) /\ UNCHANGED <<host, joiner, user, hist>>

(***************************************************************************)
(* Chat: send_chat of the command loops (main.py:18-41) and the             *)
(* CHAT_MESSAGE handlers.                                                   *)
(***************************************************************************)
ContentTypes == {"TEXT", "STICKER"}

ChatMsg(src, dst, content_type) ==
  [Msg("CHAT_MESSAGE", src, dst) EXCEPT !.content_type = content_type]

\* the send_chat calls the users may still make
ChatsLeft == hist.run = "chat" /\ hist.chats < MaxChats

\* a chat command that also notes the text as the move announced last
HostSendChat_AsMove(content_type) ==
  /\ user["host"] = "idle" /\ ChatsLeft
  /\ host.remote_addr # None
  /\ UserSend("host", ChatMsg("host", host.remote_addr, content_type))
  /\ host' = [host EXCEPT !.last_announced_move = content_type]
  /\ hist' = [hist EXCEPT !.chats = @ + 1]
  /\ UNCHANGED <<joiner, spectator>>

\* the Host's chat command (main.py:89-93): send_chat(host, host.remote_addr)
HostSendChat(content_type) ==
  /\ user["host"] = "idle" /\ ChatsLeft
  /\ host.remote_addr # None
  /\ UserSend("host", ChatMsg("host", host.remote_addr, content_type))
  /\ hist' = [hist EXCEPT !.chats = @ + 1]
  /\ UNCHANGED <<host, joiner, spectator>>

\* the Joiner's chat command (main.py:146-150)
JoinerSendChat(content_type) ==
  /\ user["joiner"] = "idle" /\ ChatsLeft
  /\ joiner.remote_addr # None
  /\ UserSend("joiner", ChatMsg("joiner", joiner.remote_addr, content_type))
  /\ hist' = [hist EXCEPT !.chats = @ + 1]
  /\ UNCHANGED <<host, joiner, spectator>>

\* the Spectator's chat command (main.py:173-174): send_chat(spect, spect.host_addr)
SpectatorSendChat(content_type) ==
  /\ user["spec"] = "idle" /\ ChatsLeft
  /\ UserSend("spec", ChatMsg("spec", "host", content_type))
  /\ hist' = [hist EXCEPT !.chats = @ + 1]
  /\ UNCHANGED <<host, joiner, spectator>>

\* a chat handler that takes the sender for the remote peer
HostChatMessage_TakesAddr(t) ==
  /\ Starts(t, "host", "CHAT_MESSAGE")
  /\ host' = [host EXCEPT !.remote_addr = t.msg.src]
  /\ Quiet(t) /\ UNCHANGED <<joiner, spectator, user, hist>>

\* CHAT_MESSAGE at the Host (peers.py:357-367): a line is printed
HostChatMessage(t) ==
  /\ Starts(t, "host", "CHAT_MESSAGE")
  /\ Quiet(t) /\ UNCHANGED <<host, joiner, spectator, user, hist>>

\* CHAT_MESSAGE at the Joiner (peers.py:605-615)
JoinerChatMessage(t) ==
  /\ Starts(t, "joiner", "CHAT_MESSAGE")
  /\ Quiet(t) /\ UNCHANGED <<host, joiner, spectator, user, hist>>

(***************************************************************************)
(* network.py: BasePeer.send, ReliableSender and _recv_loop, one statement  *)
(* per step.  A caller c is <<peer, thread>>.                               *)
(***************************************************************************)
\* the calls and faults the bounds still allow
CallsLeft ==
  nhist.calls < (IF nhist.faulty THEN MaxUserSends ELSE MaxUserSendsCalm)
RepliesLeft ==
  nhist.replies < (IF nhist.faulty THEN MaxReplies ELSE MaxRepliesCalm)
FaultsLeft == nhist.faulty /\ nhist.faults < MaxFaults

\* json.loads(data.decode('utf-8')) returns (network.py:106-110)
Decodes_Always(d) == TRUE
Decodes(d) == d.kind = "json"

\* the receive loop of p is at recvfrom: a handler runs on a thread of its
\* own, so the loop is back there whatever the handlers do (network.py:130)
AtRecvfrom_Inline(p) == rx[p] = NoRx /\ senders[<<p, "handler">>].pc = "idle"
AtRecvfrom(p) == rx[p] = NoRx

\* sock.sendto(data, addr): the datagram leaves; nothing listens on NoListener
Transmit(bag, d) == IF d.dst \in NetPeers THEN bag (+) One(d) ELSE bag

\* self.waiters.pop(seq, None)
Pop(w, p, seq) == [w EXCEPT ![p][seq] = NoEvent]

\* thread c leaves send with value ret
Return(c, ret) ==
  [senders EXCEPT ![c] = [IdleSender EXCEPT !.ret = ret]]

\* thread c enters send(payload, dst, reliable) (network.py:144)
Call(c, dst, reliable) ==
  /\ senders[c].pc = "idle"
  /\ senders' = [senders EXCEPT ![c] =
                   [IdleSender EXCEPT !.pc = "read", !.dst = dst, !.reliable = reliable]]

\* the command loop of p calls send (main.py:24, 39; peers.py:391, 417, 645)
UserCall(p, dst, reliable) ==
  /\ CallsLeft
  /\ Call(<<p, "user">>, dst, reliable)
  /\ nhist' = [nhist EXCEPT !.calls = @ + 1]
  /\ UNCHANGED <<seq_counter, waiters, sock, rx>>

\* make_seq, right-hand side of network.py:141: self.seq_counter.get(self.name, 0)
MakeSeqRead(c) ==
  /\ senders[c].pc = "read"
  /\ senders' = [senders EXCEPT ![c].r = seq_counter[c[1]], ![c].pc = "write"]
  /\ UNCHANGED <<seq_counter, waiters, sock, rx, nhist>>

\* make_seq, the assignment of network.py:141; no lock is held
MakeSeqWrite(c) ==
  /\ senders[c].pc = "write"
  /\ seq_counter' = [seq_counter EXCEPT ![c[1]] = senders[c].r + 1]
  /\ senders' = [senders EXCEPT ![c].pc = "stamp"]
  /\ UNCHANGED <<waiters, sock, rx, nhist>>

\* make_seq returns self.seq_counter[self.name] (network.py:142) and send
\* stamps the payload with it (145-147)
Stamp(c) ==
  /\ senders[c].pc = "stamp"
  /\ senders' = [senders EXCEPT ![c].seq = seq_counter[c[1]],
                                ![c].pc = IF senders[c].reliable THEN "register"
                                          ELSE "sendto"]
  /\ nhist' = [nhist EXCEPT !.issued[c[1]] = Append(@, seq_counter[c[1]])]
  /\ UNCHANGED <<seq_counter, waiters, sock, rx>>

\* send_with_ack: ev = threading.Event(); with self.lock: self.waiters[seq] = ev
\* (network.py:34-39)
Register(c) ==
  /\ senders[c].pc = "register"
  /\ waiters' = [waiters EXCEPT ![c[1]][senders[c].seq] = c]
  /\ senders' = [senders EXCEPT ![c].ev = FALSE, ![c].tries = 0, ![c].pc = "sendto"]
  /\ UNCHANGED <<seq_counter, sock, rx, nhist>>

\* self.sock.sendto(data, addr) (network.py:42 in send_with_ack, 155 in send)
Sendto(c) ==
  /\ senders[c].pc = "sendto"
  /\ sock' = Transmit(sock, Data(senders[c].seq, c[1], senders[c].dst))
  /\ senders' = IF senders[c].reliable
                THEN [senders EXCEPT ![c].sent = @ + 1, ![c].pc = "wait"]
                ELSE Return(c, "True")
  /\ UNCHANGED <<seq_counter, waiters, rx, nhist>>

\* sendto raises: send_with_ack pops the waiter and returns False
\* (network.py:44-48); send returns False (158-160)
SendError(c) ==
  /\ senders[c].pc = "sendto"
  /\ FaultsLeft
  /\ waiters' = IF senders[c].reliable THEN Pop(waiters, c[1], senders[c].seq)
                ELSE waiters
  /\ senders' = Return(c, "False")
  /\ nhist' = [nhist EXCEPT !.faults = @ + 1]
  /\ UNCHANGED <<seq_counter, sock, rx>>

\* ev.wait(timeout) returns True: pop the waiter, return True (network.py:49-54)
WaitGot(c) ==
  /\ senders[c].pc = "wait" /\ senders[c].ev
  /\ waiters' = Pop(waiters, c[1], senders[c].seq)
  /\ senders' = Return(c, "True")
  /\ UNCHANGED <<seq_counter, sock, rx, nhist>>

\* the datagram c transmitted, or its acknowledgement, is still on its way
InFlight(c) ==
  LET d == Data(senders[c].seq, c[1], senders[c].dst)
      a == Ack(senders[c].seq, senders[c].dst, c[1])
  IN  \/ BagIn(d, sock) \/ BagIn(a, sock)
      \/ \E p \in NetPeers : rx[p].d \in {d, a}

\* a loop that gives up one transmission early: while tries < max_retries
WaitTimeout_Short(c) ==
  /\ senders[c].pc = "wait" /\ ~senders[c].ev
  /\ ~InFlight(c)
  /\ IF senders[c].tries + 1 < RETRANSMIT_RETRIES
     THEN /\ senders' = [senders EXCEPT ![c].tries = @ + 1, ![c].pc = "sendto"]
          /\ waiters' = waiters
     ELSE /\ senders' = Return(c, "False")
          /\ waiters' = Pop(waiters, c[1], senders[c].seq)
  /\ UNCHANGED <<seq_counter, waiters, sock, rx, nhist>>

\* ev.wait(timeout) returns False: tries += 1, and either the loop goes round
\* or it ends, the waiter is popped and False returned (network.py:49, 55-59).
\* RETRANSMIT_TIMEOUT is long against the time a datagram travels: the wait
\* times out only when nothing is left on its way that could end it.
WaitTimeout(c) ==
  /\ senders[c].pc = "wait" /\ ~senders[c].ev
  /\ ~InFlight(c)
  /\ IF senders[c].tries + 1 <= RETRANSMIT_RETRIES
     THEN /\ senders' = [senders EXCEPT ![c].tries = @ + 1, ![c].pc = "sendto"]
          /\ waiters' = waiters
     ELSE /\ senders' = Return(c, "False")
          /\ waiters' = Pop(waiters, c[1], senders[c].seq)
  /\ UNCHANGED <<seq_counter, sock, rx, nhist>>

\* a receive loop that leaves the acknowledgement to the handler
RecvDatagram_Silent(p, d) ==
  /\ AtRecvfrom(p)
  /\ BagIn(d, sock) /\ d.dst = p
  /\ IF ~Decodes(d)
     THEN /\ sock' = sock (-) One(d)
          /\ rx' = rx
     ELSE /\ sock' = sock (-) One(d)
          /\ rx' = [rx EXCEPT ![p] = [d |-> d, acked |-> FALSE]]
  /\ nhist' = [nhist EXCEPT !.garbage = IF Decodes(d) THEN @ ELSE @ + 1,
                            !.taken = IF Decodes(d) /\ d.message_type # "ACK"
                                      THEN @ \cup {d} ELSE @]
  /\ UNCHANGED <<seq_counter, waiters, senders>>

\* _recv_loop of p: recvfrom, json.loads, and the automatic acknowledgement
\* (network.py:105-119)
RecvDatagram(p, d) ==
  /\ AtRecvfrom(p)
  /\ BagIn(d, sock) /\ d.dst = p
  /\ IF ~Decodes(d)
     THEN /\ sock' = sock (-) One(d)
          /\ rx' = rx
     ELSE IF d.message_type # "ACK" /\ d.sequence_number # Absent
     THEN /\ sock' = Transmit(sock (-) One(d), Ack(d.sequence_number, p, d.src))
          /\ rx' = [rx EXCEPT ![p] = [d |-> d, acked |-> TRUE]]
     ELSE /\ sock' = sock (-) One(d)
          /\ rx' = [rx EXCEPT ![p] = [d |-> d, acked |-> FALSE]]
  /\ nhist' = [nhist EXCEPT !.garbage = IF Decodes(d) THEN @ ELSE @ + 1,
                            !.taken = IF Decodes(d) /\ d.message_type # "ACK"
                                      THEN @ \cup {d} ELSE @]
  /\ UNCHANGED <<seq_counter, waiters, senders>>

\* notify_ack (network.py:61-65): set the Event registered under ack_number
notify_ack(p, ack_number) ==
  IF ack_number \in SeqNums /\ waiters[p][ack_number] # NoEvent
  THEN [senders EXCEPT ![waiters[p][ack_number]].ev = TRUE]
  ELSE senders

\* _recv_loop of p, an ACK that has an ack_number: notify and continue
\* (network.py:122-127); int() raising is swallowed
RecvAck(p) ==
  /\ rx[p].d.message_type = "ACK" /\ rx[p].d.ack_number # Absent
  /\ senders' = IF rx[p].d.ack_number = NotInt THEN senders
                ELSE notify_ack(p, rx[p].d.ack_number)
  /\ rx' = [rx EXCEPT ![p] = NoRx]
  /\ UNCHANGED <<seq_counter, waiters, sock, nhist>>

\* _recv_loop of p, any other envelope: a thread is started on handle_message
\* (network.py:130).  The handler either returns without sending, as
\* BasePeer.handle_message (162-163) and a rejecting session handler do, or
\* replies to the sender's address with send; no handler replies to an ACK.
Dispatch(p, reply) ==
  /\ rx[p] # NoRx
  /\ ~(rx[p].d.message_type = "ACK" /\ rx[p].d.ack_number # Absent)
  /\ IF reply
     THEN /\ rx[p].d.message_type # "ACK"
          /\ RepliesLeft
          /\ Call(<<p, "handler">>, rx[p].d.src, TRUE)
     ELSE senders' = senders
  /\ nhist' = [nhist EXCEPT
                 !.replies = IF reply THEN @ + 1 ELSE @,
                 !.handled = @ \cup {<<p, rx[p].d.message_type>>}]
  /\ rx' = [rx EXCEPT ![p] = NoRx]
  /\ UNCHANGED <<seq_counter, waiters, sock>>

\* the datagrams that can reach p's socket from outside the match
Foreign(p) ==
  { Datagram("bytes", None, Absent, Absent, NoListener, p),
    Ack(1, NoListener, p), Ack(Absent, NoListener, p), Ack(NotInt, NoListener, p) }

Inject(p, d) ==
  /\ FaultsLeft
  /\ sock' = sock (+) One(d)
  /\ nhist' = [nhist EXCEPT !.faults = @ + 1]
  /\ UNCHANGED <<seq_counter, waiters, senders, rx>>

\* the network drops a datagram
Lose(d) ==
  /\ BagIn(d, sock)
  /\ FaultsLeft
  /\ sock' = sock (-) One(d)
  /\ nhist' = [nhist EXCEPT !.faults = @ + 1]
  /\ UNCHANGED <<seq_counter, waiters, senders, rx>>

SendStep(c) ==
  \/ MakeSeqRead(c)
  \/ MakeSeqWrite(c)
  \/ Stamp(c)
  \/ Register(c)
  \/ Sendto(c)
  \/ WaitGot(c)
  \/ WaitTimeout(c)

RecvStep(p) ==
  \/ \E d \in BagToSet(sock) : RecvDatagram(p, d)
  \/ RecvAck(p)
  \/ \E reply \in BOOLEAN : Dispatch(p, reply)

UserCalls ==
  \E p \in NetPeers, dst \in NetPeers \cup {NoListener}, reliable \in BOOLEAN :
    dst # p /\ UserCall(p, dst, reliable)

\* the transport of two peers whose threads call send, without faults
NextCalm ==
  \/ UserCalls /\ UNCHANGED session
  \/ \E c \in Callers : MakeSeqRead(c) /\ UNCHANGED session
  \/ \E c \in Callers : MakeSeqWrite(c) /\ UNCHANGED session
  \/ \E c \in Callers : Stamp(c) /\ UNCHANGED session
  \/ \E c \in Callers : Register(c) /\ UNCHANGED session
  \/ \E c \in Callers : Sendto(c) /\ UNCHANGED session
  \/ \E c \in Callers : WaitGot(c) /\ UNCHANGED session
  \/ \E c \in Callers : WaitTimeout(c) /\ UNCHANGED session
  \/ \E p \in NetPeers : \E d \in BagToSet(sock) :
       RecvDatagram(p, d) /\ UNCHANGED session
  \/ \E p \in NetPeers : RecvAck(p) /\ UNCHANGED session
  \/ \E p \in NetPeers : \E reply \in BOOLEAN :
       Dispatch(p, reply) /\ UNCHANGED session

\* the same, over a network and sockets that can fail
NextNet ==
  \/ NextCalm
  \/ \E p \in NetPeers : \E d \in Foreign(p) : Inject(p, d) /\ UNCHANGED session
  \/ \E d \in BagToSet(sock) : Lose(d) /\ UNCHANGED session
  \/ \E c \in Callers : SendError(c) /\ UNCHANGED session

InitNet ==
  /\ host = HostInit("Bulbasaur")
  /\ joiner = JoinerInit("Charmander", "std")
  /\ spectator = SpectatorInit
  /\ net = EmptyBag
  /\ threads = EmptyBag
  /\ user = [host |-> "idle", joiner |-> "idle", spec |-> "absent"]
  /\ hist = HistInit
  /\ TransportInit

SpecNet == InitNet /\ [][NextNet]_vars

\* a run without faults in which every thread that calls send and every
\* receive loop is scheduled again and again
InitCalm ==
  /\ host = HostInit("Bulbasaur")
  /\ joiner = JoinerInit("Charmander", "std")
  /\ spectator = SpectatorInit
  /\ net = EmptyBag
  /\ threads = EmptyBag
  /\ user = [host |-> "idle", joiner |-> "idle", spec |-> "absent"]
  /\ hist = HistInit
  /\ seq_counter = [p \in NetPeers |-> 0]
  /\ waiters = [p \in NetPeers |-> [n \in SeqNums |-> NoEvent]]
  /\ senders = [c \in Callers |-> IdleSender]
  /\ sock = EmptyBag
  /\ rx = [p \in NetPeers |-> NoRx]
  /\ nhist = [NHistInit EXCEPT !.faulty = FALSE]
  /\ calc = NoCalc

SpecCalm ==
  /\ InitCalm /\ [][NextCalm]_vars
  /\ \A c \in Callers : WF_vars(SendStep(c) /\ UNCHANGED session)
  /\ \A p \in NetPeers : WF_vars(RecvStep(p) /\ UNCHANGED session)

(***************************************************************************)
(* The system.                                                              *)
(***************************************************************************)
HostStep(t) ==
  \/ HostHandshakeRequest(t)
  \/ HostBattleSetup(t)
  \/ HostAttackAnnounce(t)
  \/ HostDefenseAnnounce(t)
  \/ HostCalculationReport(t)
  \/ HostCalculationConfirm(t)
  \/ HostResolutionRequest(t)

JoinerStep(t) ==
  \/ JoinerHandshakeResponse(t)
  \/ JoinerBattleSetup(t)
  \/ JoinerTurnAssignment(t)
  \/ JoinerAttackAnnounce(t)
  \/ JoinerDefenseAnnounce(t)
  \/ JoinerCalculationReport(t)
  \/ JoinerResolutionRequest(t)
  \/ JoinerGameOver(t)

UserStep ==
  \/ JoinerStartHandshake
  \/ \E move_name \in MoveInputs : HostAnnounceAttack(move_name)
  \/ \E move_name \in MoveInputs : JoinerAnnounceAttack(move_name)

\* a match of two players
Next ==
  \/ UserStep
  \/ \E e \in BagToSet(net) : Recv(e)
  \/ \E t \in BagToSet(threads) : HostStep(t) \/ JoinerStep(t)

Spec == Init /\ [][Next]_vars

\* a match of two players that a spectator may join
SpectatorStep(t) ==
  \/ HostSpectatorRequest(t)
  \/ HostBroadcast(t)
  \/ SpectatorBattleSetup(t)
  \/ SpectatorCalculationReport(t)

InitWatched ==
  /\ \E c \in Matches :
       /\ host = HostInit(c[1])
       /\ joiner = JoinerInit(c[2], c[3])
  /\ spectator = SpectatorInit
  /\ net = EmptyBag
  /\ threads = EmptyBag
  /\ user = [host |-> "idle", joiner |-> "init", spec |-> "init"]
  /\ hist = HistInit
  /\ TransportInit

NextWatched ==
  \/ Next
  \/ SpectatorJoin
  \/ \E t \in BagToSet(threads) : SpectatorStep(t)

SpecWatched == InitWatched /\ [][NextWatched]_vars

\* a match that a spectator may join, in which the users also chat
InitChat ==
  /\ host = HostInit("Bulbasaur")
  /\ joiner = JoinerInit("Charmander", "std")
  /\ spectator = SpectatorInit
  /\ net = EmptyBag
  /\ threads = EmptyBag
  /\ user = [host |-> "idle", joiner |-> "init", spec |-> "init"]
  /\ hist = [HistInit EXCEPT !.run = "chat"]
  /\ TransportInit

NextChat ==
  \/ NextWatched
  \/ \E content_type \in ContentTypes : HostSendChat(content_type)
  \/ \E content_type \in ContentTypes : JoinerSendChat(content_type)
  \/ \E content_type \in ContentTypes : SpectatorSendChat(content_type)
  \/ \E t \in BagToSet(threads) : HostChatMessage(t)
  \/ \E t \in BagToSet(threads) : JoinerChatMessage(t)

SpecChat == InitChat /\ [][NextChat]_vars

\* a match in which one envelope is delivered twice
InitAgain ==
  /\ host = HostInit("Bulbasaur")
  /\ joiner = JoinerInit("Charmander", "std")
  /\ spectator = SpectatorInit
  /\ net = EmptyBag
  /\ threads = EmptyBag
  /\ user = [host |-> "idle", joiner |-> "init", spec |-> "absent"]
  /\ hist = [HistInit EXCEPT !.run = "again"]
  /\ TransportInit

NextAgain ==
  \/ Next
  \/ \E e \in BagToSet(net) : Redeliver(e)
  \/ \E t \in BagToSet(threads) : RedeliverLast(t)

SpecAgain == InitAgain /\ [][NextAgain]_vars

\* a match in which one BATTLE_SETUP is delivered twice, the second time at
\* any later moment
InitLate ==
  /\ host = HostInit("Bulbasaur")
  /\ joiner = JoinerInit("Charmander", "std")
  /\ spectator = SpectatorInit
  /\ net = EmptyBag
  /\ threads = EmptyBag
  /\ user = [host |-> "idle", joiner |-> "init", spec |-> "absent"]
  /\ hist = [HistInit EXCEPT !.run = "late"]
  /\ TransportInit

SpecLate == InitLate /\ [][NextAgain]_vars

\* a match that a spectator may join, in which its SPECTATOR_REQUEST is
\* delivered twice
InitTwice ==
  /\ host = HostInit("Bulbasaur")
  /\ joiner = JoinerInit("Charmander", "std")
  /\ spectator = SpectatorInit
  /\ net = EmptyBag
  /\ threads = EmptyBag
  /\ user = [host |-> "idle", joiner |-> "init", spec |-> "init"]
  /\ hist = [HistInit EXCEPT !.run = "twice"]
  /\ TransportInit

NextTwice ==
  \/ NextWatched
  \/ \E e \in BagToSet(net) : Redeliver(e)
  \/ \E t \in BagToSet(threads) : RedeliverLast(t)

SpecTwice == InitTwice /\ [][NextTwice]_vars

\* a match in which an attack is announced only when the one before is through
InitOnce ==
  /\ host = HostInit("Bulbasaur")
  /\ joiner = JoinerInit("Charmander", "std")
  /\ spectator = SpectatorInit
  /\ net = EmptyBag
  /\ threads = EmptyBag
  /\ user = [host |-> "idle", joiner |-> "init", spec |-> "absent"]
  /\ hist = [HistInit EXCEPT !.run = "once"]
  /\ TransportInit

SpecOnce == InitOnce /\ [][Next]_vars

\* a match in which the Joiner's csv lacks the Host's combatant
InitFallback ==
  /\ host = HostInit("Bulbasaur")
  /\ joiner = JoinerInit("Charmander", "few")
  /\ spectator = SpectatorInit
  /\ net = EmptyBag
  /\ threads = EmptyBag
  /\ user = [host |-> "idle", joiner |-> "init", spec |-> "absent"]
  /\ hist = [HistInit EXCEPT !.run = "fallback"]
  /\ TransportInit

SpecFallback == InitFallback /\ [][Next]_vars

\* the start of a match that a spectator may join, in which every datagram
\* in flight is delivered and acknowledged and every thread runs in the end
InitFirst ==
  /\ host = HostInit("Bulbasaur")
  /\ joiner = JoinerInit("Charmander", "std")
  /\ spectator = SpectatorInit
  /\ net = EmptyBag
  /\ threads = EmptyBag
  /\ user = [host |-> "idle", joiner |-> "init", spec |-> "init"]
  /\ hist = [HistInit EXCEPT !.run = "first"]
  /\ TransportInit

SpecFirst == InitFirst /\ [][NextWatched]_vars /\ WF_vars(NextWatched)

(***************************************************************************)
(* pokemon.py: calculate_damage on its own.  The arguments are drawn at the *)
(* start; each call passes the rows with the hit points the combatants have *)
(* at that moment (the handlers write them into row['hp']).                 *)
(***************************************************************************)
\* a database row with one or two types, small statistics and one against_* column
EdgeRow(a, d, type2, normal) ==
  [ name |-> "Edge", type1 |-> "rock", type2 |-> type2, hp |-> 10,
    attack |-> a, defense |-> d, sp_attack |-> d, sp_defense |-> a,
    has_types |-> TRUE, type_effectiveness |-> [Normal |-> normal] ]

DatabaseRows ==
  {pokemon_db("std")["Bulbasaur"], pokemon_db("alt")["Bulbasaur"],
   pokemon_db("std")["Charmander"]}

\* the rows a session may hold: database rows and transmitted fallback data
AttackerRows ==
  DatabaseRows \cup {SetupData(pokemon_db("std")["Charmander"])}
    \cup {EdgeRow(a, 2, "", 4) : a \in {0, 1, 7}}

DefenderRows ==
  DatabaseRows \cup {SetupData(r) : r \in DatabaseRows}
    \cup {EdgeRow(1, d, type2, normal) :
            d \in {0, 2, 6}, type2 \in {"", "ground"}, normal \in {0, 2, 4, 8}}

\* the entries of MOVES, the {} of MOVES.get(move_name, {}) and moves of small power
MoveArgs ==
  {MOVES[n] : n \in DOMAIN MOVES} \cup {NoMove}
    \cup {[type |-> "normal", power |-> power, damage_category |-> category] :
            power \in {0, 1, 3, 5}, category \in {"physical", "special"}}

\* the hit points a combatant may have when the formula is called
CurrentHps == {0, 10}

InitDamage ==
  /\ host = HostInit("Bulbasaur")
  /\ joiner = JoinerInit("Charmander", "std")
  /\ spectator = SpectatorInit
  /\ net = EmptyBag
  /\ threads = EmptyBag
  /\ user = [host |-> "idle", joiner |-> "init", spec |-> "absent"]
  /\ hist = HistInit
  /\ seq_counter = [p \in NetPeers |-> 0]
  /\ waiters = [p \in NetPeers |-> [n \in SeqNums |-> NoEvent]]
  /\ senders = [c \in Callers |-> IdleSender]
  /\ sock = EmptyBag
  /\ rx = [p \in NetPeers |-> NoRx]
  /\ nhist = NHistInit
  /\ \E attacker_row \in AttackerRows, defender_row \in DefenderRows,
        move \in MoveArgs, err \in Errs :
       calc = [attacker_row |-> attacker_row, defender_row |-> defender_row,
               move |-> move, err |-> err, calls |-> {}]

\* self.pokemon_manager.calculate_damage(attacker_row, defender_row, move) in
\* a handler of peer p
Calculate(p, attacker_hp, defender_hp) ==
  /\ Cardinality(calc.calls) < MaxCalls
  /\ calc' = [calc EXCEPT !.calls = @ \cup
       {[ p |-> p, attacker_hp |-> attacker_hp, defender_hp |-> defender_hp,
          value |-> calculate_damage_float(
                      [calc.attacker_row EXCEPT !.hp = attacker_hp],
                      [calc.defender_row EXCEPT !.hp = defender_hp],
                      calc.move, calc.err) ]}]
  /\ UNCHANGED program

NextDamage ==
  \E p \in {"host", "joiner"}, attacker_hp \in CurrentHps, defender_hp \in CurrentHps :
    Calculate(p, attacker_hp, defender_hp)

SpecDamage == InitDamage /\ [][NextDamage]_vars

(***************************************************************************)
(* Properties.                                                              *)
(***************************************************************************)
\* the step runs a segment of handler thread t
Runs(t) == BagIn(t, threads) /\ CopiesIn(t, threads') < CopiesIn(t, threads)

\* the step is the first segment of t, the handler of a message of type mt
Handles(t, p, mt) ==
  Runs(t) /\ t.p = p /\ t.pc = "start" /\ t.msg.message_type = mt

\* thread t ends and nothing else happens
Dropped(t) ==
  /\ host' = host /\ joiner' = joiner /\ spectator' = spectator
  /\ net' = net /\ threads' = threads (-) One(t)

\* C1: an ATTACK_ANNOUNCE handled while the receiver's turn is not the
\* sender's role is dropped (no DEFENSE_ANNOUNCE, no CALCULATION_REPORT, hit
\* points and turn unchanged), and damage is applied on ATTACK_ANNOUNCE only
\* by a handler whose guard read the attacker's turn
C1_OutOfTurnRejected ==
  /\ [][\A t \in BagToSet(threads) :
         /\ (Handles(t, "host", "ATTACK_ANNOUNCE") /\ host.battle_state.turn # "joiner")
              => Dropped(t)
         /\ (Handles(t, "joiner", "ATTACK_ANNOUNCE") /\ joiner.battle_state.turn # "host")
              => Dropped(t)]_vars
  /\ [](hist.applied \subseteq {<<"host", "joiner">>, <<"joiner", "host">>})

\* C1: the Host has turned an attack down, and damage has been applied
C1_Witness ==
  /\ "host" \in hist.rejected
  /\ hist.applied # {}


\* the envelopes the step hands to BasePeer.send
Sent ==
  {e.m : e \in BagToSet(net' (-) net)}
    \cup {t.msg : t \in {u \in BagToSet(threads' (-) threads) : u.pc = "start"}}

\* C2: between two accepted ATTACK_ANNOUNCE envelopes the Host changes its
\* turn at most once, and no CALCULATION_CONFIRM of an exchange the Joiner
\* started changes the Host's turn
C2_OneHandoff ==
  /\ [](hist.flips <= 1)
  /\ [][\A t \in BagToSet(threads) :
         (Handles(t, "host", "CALCULATION_CONFIRM") /\ t.msg.exch = "joiner")
           => host'.battle_state.turn = host.battle_state.turn]_vars

\* both combatants are above 0 hit points in both sessions
BothStanding ==
  /\ host.battle_state.host_hp > 0 /\ host.battle_state.joiner_hp > 0
  /\ joiner.battle_state.host_hp > 0 /\ joiner.battle_state.joiner_hp > 0

BothTurns(role) ==
  host.battle_state.turn = role /\ joiner.battle_state.turn = role

\* C3 (the part a finite run refutes): once both sessions hold the turn of
\* the side that was attacked last, with both combatants standing, they keep
\* it until that side announces its attack
C3_TurnStays ==
  [][/\ (hist.last = "host" /\ hist'.last = "host" /\ BothStanding
           /\ BothTurns("joiner")) => BothTurns("joiner")'
     /\ (hist.last = "joiner" /\ hist'.last = "joiner" /\ BothStanding
           /\ BothTurns("host")) => BothTurns("host")']_vars

\* C5: once a session's game_over flag is set, no TURN_ASSIGNMENT,
\* ATTACK_ANNOUNCE, CALCULATION_CONFIRM or RESOLUTION_REQUEST it handles
\* changes its turn
C5_TurnFrozen ==
  [][\A t \in BagToSet(threads) :
       (Runs(t) /\ t.msg.message_type \in
          {"TURN_ASSIGNMENT", "ATTACK_ANNOUNCE", "CALCULATION_CONFIRM",
           "RESOLUTION_REQUEST"})
         => /\ (t.p = "host" /\ host.battle_state.game_over)
                 => host'.battle_state.turn = host.battle_state.turn
            /\ (t.p = "joiner" /\ joiner.battle_state.game_over)
                 => joiner'.battle_state.turn = joiner.battle_state.turn]_vars

\* C6: at most one GAME_OVER envelope is originated toward the opponent, and
\* a GAME_OVER handled by a session whose game_over flag is set changes nothing
C6_OneGameOver ==
  /\ [](hist.game_overs <= 1)
  /\ [][\A t \in BagToSet(threads) :
         (Handles(t, "joiner", "GAME_OVER") /\ joiner.battle_state.game_over)
           => Dropped(t)]_vars

\* every envelope in flight, being handled or held by a loop over spectators
Envelopes ==
  {e.m : e \in BagToSet(net)} \cup {e.k.out : e \in BagToSet(net)}
    \cup {t.msg : t \in BagToSet(threads)} \cup {t.out : t \in BagToSet(threads)}

\* C4: the Joiner's turn changes only in its TURN_ASSIGNMENT handler, to the
\* current_turn the envelope carries, and every TURN_ASSIGNMENT envelope
\* comes from the Host
C4_HostOriginatesTurns ==
  /\ [][joiner'.battle_state.turn # joiner.battle_state.turn
          => \E t \in BagToSet(threads) :
               /\ Handles(t, "joiner", "TURN_ASSIGNMENT")
               /\ joiner'.battle_state.turn = t.msg.current_turn]_vars
  /\ [](\A m \in Envelopes : m.message_type = "TURN_ASSIGNMENT" => m.src = "host")

\* C4: with a spectator registered, the Joiner holds the turn the Host
\* assigned it after the Host's attack
C4_Witness ==
  /\ joiner.battle_state.turn = "joiner"
  /\ hist.last = "host"
  /\ Len(host.spectators) > 0

Hps ==
  { host.battle_state.host_hp, host.battle_state.joiner_hp,
    joiner.battle_state.host_hp, joiner.battle_state.joiner_hp }

\* C8 (the part a finite run refutes): hit points never go below 0; once a
\* combatant is at 0 hit points and every datagram and handler is through,
\* both sessions have game_over set; every GAME_OVER names as winner the
\* combatant the Host holds above 0 hit points
C8_KnockOut ==
  /\ [](\A hp \in Hps : hp >= 0 \/ hp = NoHp)
  /\ []((Pending = 0 /\ 0 \in Hps)
          => (host.battle_state.game_over /\ joiner.battle_state.game_over))
  /\ [][\A m \in Sent : m.message_type = "GAME_OVER" =>
          \/ /\ m.winner = host.local_pokemon_name
             /\ host.battle_state.host_hp > 0 /\ host.battle_state.joiner_hp = 0
          \/ /\ m.winner = host.joiner_pokemon_name
             /\ host.battle_state.joiner_hp > 0 /\ host.battle_state.host_hp = 0]_vars

\* the step sends exactly one envelope, of type mt, to dst
SendsOne(mt, dst) ==
  /\ BagCardinality(net' (-) net) + BagCardinality(threads' (-) threads) = 1
  /\ \A m \in Sent : m.message_type = mt /\ m.dst = dst

\* C9: a CALCULATION_REPORT whose damage_dealt equals the receiver's
\* recomputation sets the receiver's copy of the defender's hit points
\* (snapshot and battle_state) to defender_hp_remaining, leaves the attacker's
\* unchanged and is answered by a CALCULATION_CONFIRM
C9_MatchingReport ==
  [][\A t \in BagToSet(threads) :
       /\ (Handles(t, "host", "CALCULATION_REPORT")
             /\ HostExpected(t.msg) = t.msg.damage_dealt)
            => /\ IF t.msg.exch = "host"
                  THEN /\ host'.battle_state.joiner_hp = t.msg.defender_hp_remaining
                       /\ host'.joiner_pokemon_row.hp = t.msg.defender_hp_remaining
                       /\ host'.battle_state.host_hp = host.battle_state.host_hp
                       /\ host'.local_pokemon_row = host.local_pokemon_row
                  ELSE /\ host'.battle_state.host_hp = t.msg.defender_hp_remaining
                       /\ host'.local_pokemon_row.hp = t.msg.defender_hp_remaining
                       /\ host'.battle_state.joiner_hp = host.battle_state.joiner_hp
                       /\ host'.joiner_pokemon_row = host.joiner_pokemon_row
               /\ \E m \in Sent : m.message_type = "CALCULATION_CONFIRM"
                                    /\ m.dst = t.msg.src
       /\ (Handles(t, "joiner", "CALCULATION_REPORT")
             /\ JoinerExpected(t.msg) = t.msg.damage_dealt)
            => /\ IF t.msg.exch = "joiner"
                  THEN /\ joiner'.battle_state.host_hp = t.msg.defender_hp_remaining
                       /\ joiner'.host_pokemon_row.hp = t.msg.defender_hp_remaining
                       /\ joiner'.battle_state.joiner_hp = joiner.battle_state.joiner_hp
                       /\ joiner'.local_pokemon_row = joiner.local_pokemon_row
                  ELSE /\ joiner'.battle_state.joiner_hp = t.msg.defender_hp_remaining
                       /\ joiner'.local_pokemon_row.hp = t.msg.defender_hp_remaining
                       /\ joiner'.battle_state.host_hp = joiner.battle_state.host_hp
                       /\ joiner'.host_pokemon_row = joiner.host_pokemon_row
               /\ \E m \in Sent : m.message_type = "CALCULATION_CONFIRM"
                                    /\ m.dst = t.msg.src]_vars

\* the value a report is checked against can be computed and differs
Mismatch(expected, msg) ==
  expected \notin {Missing, Raise} /\ expected # msg.damage_dealt

\* C10: a CALCULATION_REPORT whose damage_dealt differs from the receiver's
\* recomputation is answered by exactly one envelope, a RESOLUTION_REQUEST
\* carrying the receiver's value, and changes nothing in either session
C10_MismatchedReport ==
  [][\A t \in BagToSet(threads) :
       /\ (Handles(t, "host", "CALCULATION_REPORT") /\ Mismatch(HostExpected(t.msg), t.msg))
            => /\ SendsOne("RESOLUTION_REQUEST", t.msg.src)
               /\ \A m \in Sent : m.damage_dealt = HostExpected(t.msg)
               /\ host' = host /\ joiner' = joiner
       /\ (Handles(t, "joiner", "CALCULATION_REPORT")
             /\ Mismatch(JoinerExpected(t.msg), t.msg))
            => /\ SendsOne("RESOLUTION_REQUEST", t.msg.src)
               /\ \A m \in Sent : m.damage_dealt = JoinerExpected(t.msg)
               /\ host' = host /\ joiner' = joiner]_vars

\* C10: both sessions have answered a report of a damage they compute
\* differently, 46 against 47, and hold the hit points and turn they held
C10_Witness ==
  /\ \E t \in BagToSet(threads) :
       /\ t.msg.message_type = "RESOLUTION_REQUEST" /\ t.p = "host"
       /\ t.msg.damage_dealt = 47
  /\ \E t \in BagToSet(threads) :
       /\ t.msg.message_type = "RESOLUTION_REQUEST" /\ t.p = "joiner"
       /\ t.msg.damage_dealt = 46
  /\ ~host.battle_state.game_over /\ ~joiner.battle_state.game_over

\* the side of an exchange that did not attack
OtherSide(exch) == IF exch = "host" THEN "joiner" ELSE "host"

\* C11: the Host answers every RESOLUTION_REQUEST with a CALCULATION_CONFIRM,
\* then hands the turn to the side of the exchange that did not attack, sends
\* the TURN_ASSIGNMENT naming that side, and changes no hit points
C11_ResolutionAccepted ==
  [][\A t \in BagToSet(threads) :
       (Runs(t) /\ t.p = "host" /\ t.msg.message_type = "RESOLUTION_REQUEST")
         => /\ <<host'.battle_state.host_hp, host'.battle_state.joiner_hp>>
                 = <<host.battle_state.host_hp, host.battle_state.joiner_hp>>
            /\ t.pc = "start" =>
                 /\ SendsOne("CALCULATION_CONFIRM", t.msg.src)
                 /\ host' = host
            /\ t.pc = "rr1" =>
                 /\ host'.battle_state.turn = OtherSide(t.msg.exch)
                 /\ SendsOne("TURN_ASSIGNMENT", t.msg.src)
                 /\ \A m \in Sent : m.current_turn = OtherSide(t.msg.exch)]_vars

(***************************************************************************)
(* Properties of the transport layer.                                       *)
(***************************************************************************)
\* the step is one of thread c's own inside send
Steps(c) == senders'[c].pc # senders[c].pc

\* the step is thread c leaving send with value v
Returned(c, v) ==
  senders[c].pc \notin {"idle"} /\ senders'[c].pc = "idle" /\ senders'[c].ret = v

\* the receive loop of p finishes with the ACK of sequence number n
AckHandled(p, n) ==
  /\ rx[p].d.message_type = "ACK" /\ rx[p].d.ack_number = n
  /\ rx'[p] = NoRx

\* the callers of peer p
CallersOf(p) == {c \in Callers : c[1] = p}

\* C12: a reliable send whose first transmission is answered by an ACK with
\* its sequence number, while it waits, has its Event set, and a send whose
\* Event is set during its first wait returns True after one transmission
C12_AckRoundTrip ==
  /\ [][\A p \in NetPeers : \A c \in CallersOf(p) :
          (senders[c].pc = "wait" /\ senders[c].tries = 0
             /\ AckHandled(p, senders[c].seq))
            => senders'[c].ev]_vars
  /\ [][\A c \in Callers :
          (senders[c].pc = "wait" /\ senders[c].tries = 0 /\ senders[c].ev
             /\ Steps(c))
            => Returned(c, "True") /\ senders[c].sent = 1]_vars

\* C13: a reliable send never transmits more than RETRANSMIT_RETRIES + 1
\* times; while its Event stays unset each of its steps after a wait is a
\* retransmission or, after RETRANSMIT_RETRIES + 1 transmissions, the return
\* of False; and a send to an address nobody listens on does return False
C13_RetryExhaustion ==
  /\ [](\A c \in Callers : senders[c].sent <= RETRANSMIT_RETRIES + 1)
  /\ [][\A c \in Callers :
          (senders[c].pc = "wait" /\ ~senders[c].ev /\ Steps(c))
            => IF senders[c].sent = RETRANSMIT_RETRIES + 1
               THEN Returned(c, "False")
               ELSE /\ senders'[c].pc = "sendto"
                    /\ senders'[c].tries = senders[c].tries + 1]_vars
  /\ [][\A c \in Callers :
          (senders[c].pc = "wait" /\ Returned(c, "False"))
            => senders[c].sent = RETRANSMIT_RETRIES + 1 /\ ~senders[c].ev]_vars
  /\ \A c \in Callers :
       (senders[c].pc = "wait" /\ senders[c].dst = NoListener)
         ~> (senders[c].pc = "idle" /\ senders[c].ret = "False")

\* C13: a send has given up
C13_Witness ==
  \E c \in Callers : senders[c].pc = "idle" /\ senders[c].ret = "False"

\* the sequence numbers stamped so far by p's calls are strictly increasing
Increasing(q) == \A i, j \in 1 .. Len(q) : i < j => q[i] < q[j]

\* C14: every call of send adds one to the sequence counter and stamps the
\* envelope with the counter's new value, and the numbers stamped by the
\* calls of one peer increase strictly
C14_SequenceNumbers ==
  /\ [](\A p \in NetPeers :
          seq_counter[p] = Len(nhist.issued[p])
             + Cardinality({c \in CallersOf(p) : senders[c].pc = "stamp"}))
  /\ [][\A c \in Callers :
          (senders[c].pc = "stamp" /\ Steps(c))
            => /\ senders'[c].seq = senders[c].r + 1
               /\ seq_counter[c[1]] = senders[c].r + 1]_vars
  /\ [](\A p \in NetPeers : Increasing(nhist.issued[p]))

\* C15: no two envelopes of one peer get the same sequence number, no send
\* registers its waiter over the waiter of another send, and a waiter is
\* removed only by the send that registered it
C15_NoSharedNumbers ==
  /\ [](\A p \in NetPeers : \A i, j \in 1 .. Len(nhist.issued[p]) :
          i # j => nhist.issued[p][i] # nhist.issued[p][j])
  /\ [][\A c \in Callers :
          (senders[c].pc = "register" /\ Steps(c))
            => waiters[c[1]][senders[c].seq] = NoEvent]_vars
  /\ [][\A p \in NetPeers : \A n \in SeqNums :
          (waiters[p][n] # NoEvent /\ waiters'[p][n] # waiters[p][n])
            => /\ waiters'[p][n] = NoEvent
               /\ Steps(waiters[p][n])]_vars

\* the receive loop of p takes datagram d off its socket
Takes(p, d) ==
  /\ rx[p] = NoRx /\ BagIn(d, sock) /\ d.dst = p
  /\ CopiesIn(d, sock') < CopiesIn(d, sock)
  /\ nhist'.faults = nhist.faults
  /\ rx'[p].d \in {d, NoDatagram}

C17_AckNotDispatched ==
  /\ [](\A h \in nhist.handled : h[2] # "ACK")
  /\ [][\A p \in NetPeers : \A d \in BagToSet(sock) :
          (Takes(p, d) /\ d.message_type = "ACK") => sock' = sock (-) One(d)]_vars
  /\ [][\A p \in NetPeers :
          (rx[p].d.message_type = "ACK" /\ rx'[p] = NoRx)
            => /\ waiters' = waiters /\ sock' = sock
               /\ \A c \in Callers :
                    senders'[c] # senders[c]
                      => /\ rx[p].d.ack_number \in SeqNums
                         /\ waiters[p][rx[p].d.ack_number] = c
                         /\ senders'[c] = [senders[c] EXCEPT !.ev = TRUE]]_vars

\* a reliable send of p is between registering its waiter and returning
InProgress(c) == senders[c].reliable /\ senders[c].pc \in {"sendto", "wait"}

\* C18: the waiter of a reliable send is in the table from before its first
\* transmission until it returns; when send_with_ack returns the entry under
\* its number is gone; with no reliable send in progress the table is empty;
\* an ACK that finds no waiter changes nothing
C18_WaiterLifecycle ==
  /\ [](\A c \in Callers :
          InProgress(c) => waiters[c[1]][senders[c].seq] = c)
  /\ [][\A c \in Callers :
          (InProgress(c) /\ senders'[c].pc = "idle")
            => waiters'[c[1]][senders[c].seq] = NoEvent]_vars
  /\ [](\A p \in NetPeers :
          (\A c \in CallersOf(p) : ~InProgress(c))
            => \A n \in SeqNums : waiters[p][n] = NoEvent)
  /\ [][\A p \in NetPeers :
          (rx[p].d.message_type = "ACK" /\ rx[p].d.ack_number \in SeqNums
             /\ rx'[p] = NoRx
             /\ \A c \in CallersOf(p) :
                  ~(InProgress(c) /\ senders[c].seq = rx[p].d.ack_number))
            => senders' = senders /\ waiters' = waiters]_vars

\* C19: a datagram that does not decode is taken off the socket and nothing
\* else changes: no ACK, no handler, the loop back at recvfrom
C19_UndecodableDropped ==
  /\ [][\A p \in NetPeers : \A d \in BagToSet(sock) :
          (Takes(p, d) /\ d.kind = "bytes")
            => /\ sock' = sock (-) One(d)
               /\ rx' = rx /\ senders' = senders /\ waiters' = waiters
               /\ seq_counter' = seq_counter
               /\ nhist'.handled = nhist.handled]_vars
  /\ [](\A p \in NetPeers : rx[p].d.kind # "bytes")

\* C19: an undecodable datagram was received and nothing is left of it
C19_Witness ==
  /\ nhist.garbage = 1 /\ sock = EmptyBag /\ nhist.handled = {}
  /\ \A p \in NetPeers : rx[p] = NoRx

\* the handler thread of p is blocked in ev.wait
HandlerWaits(p) ==
  senders[<<p, "handler">>].pc = "wait" /\ ~senders[<<p, "handler">>].ev

\* C20: while a handler thread of a peer waits for an ACK the receive loop of
\* that peer takes every datagram that is there for it and an ACK with the
\* number of the handler's registered waiter sets its Event, and two handlers
\* that wait for each other's ACK both come out of send
C20_HandlersDoNotBlock ==
  /\ [](\A p \in NetPeers : \A d \in BagToSet(sock) :
          (HandlerWaits(p) /\ d.dst = p /\ rx[p] = NoRx)
            => ENABLED RecvDatagram(p, d))
  /\ [][\A p \in NetPeers :
          (HandlerWaits(p)
             /\ waiters[p][senders[<<p, "handler">>].seq] = <<p, "handler">>
             /\ AckHandled(p, senders[<<p, "handler">>].seq))
            => senders'[<<p, "handler">>].ev]_vars
  /\ (HandlerWaits("host") /\ HandlerWaits("joiner"))
       ~> (senders[<<"host", "handler">>].ret # None
             /\ senders[<<"joiner", "handler">>].ret # None)

\* C20: the handler threads of both peers wait for each other's ACK
C20_Witness ==
  /\ HandlerWaits("host") /\ HandlerWaits("joiner")
  /\ senders[<<"host", "handler">>].dst = "joiner"
  /\ senders[<<"joiner", "handler">>].dst = "host"

(***************************************************************************)
(* Properties of spectators, chat and the damage formula.                   *)
(***************************************************************************)
\* the threads that wait for the acknowledgement of a datagram the step sends
Continues == {e.k : e \in BagToSet(net' (-) net)}

\* C21: the Host's SPECTATOR_REQUEST handler appends the sender to the
\* spectators and sends it a HANDSHAKE_RESPONSE with role 'spectator'; then,
\* if the Joiner's row is known, a BATTLE_SETUP of the Joiner's combatant and
\* after it a BATTLE_SETUP of the Host's, each with the hit points the Host
\* holds at that moment, and if it is not known nothing more
C21_SpectatorCatchUp ==
  [][\A t \in BagToSet(threads) :
       (Runs(t) /\ t.p = "host" /\ t.msg.message_type = "SPECTATOR_REQUEST")
         => /\ t.pc = "start" =>
                 /\ host'.spectators = Append(host.spectators, t.msg.src)
                 /\ SendsOne("HANDSHAKE_RESPONSE", t.msg.src)
                 /\ \A m \in Sent : m.role = "spectator"
                 /\ \A k \in Continues : k.pc = "sr1"
            /\ (t.pc = "sr1" /\ IsRow(host.joiner_pokemon_row)) =>
                 /\ SendsOne("BATTLE_SETUP", t.msg.src)
                 /\ \A m \in Sent : /\ m.pokemon_name = host.joiner_pokemon_name
                                    /\ m.pokemon.hp = host.battle_state.joiner_hp
                 /\ \A k \in Continues : k.pc = "sr2"
            /\ (t.pc = "sr1" /\ ~IsRow(host.joiner_pokemon_row)) => Dropped(t)
            /\ t.pc = "sr2" =>
                 /\ SendsOne("BATTLE_SETUP", t.msg.src)
                 /\ \A m \in Sent : /\ m.pokemon_name = host.local_pokemon_name
                                    /\ m.pokemon.hp = host.battle_state.host_hp
            /\ t.pc \in {"start", "sr1", "sr2"}
            /\ t.pc # "start" => host' = host]_vars

\* C21: a spectator that joined after an attack was resolved is being sent
\* the Host's combatant, the second BATTLE_SETUP of the catch-up, with the
\* hit points the attack left
C21_Witness ==
  \E t \in BagToSet(threads) :
    /\ t.p = "spec" /\ t.msg.message_type = "BATTLE_SETUP"
    /\ t.msg.pokemon_name = host.local_pokemon_name
    /\ host.joiner_pokemon_name \notin {None, host.local_pokemon_name}
    /\ t.msg.pokemon.has_types
    /\ t.msg.pokemon.hp < pokemon_db("std")[host.local_pokemon_name].hp

\* the step is a receive loop taking a datagram off the network
Delivers == \E e \in BagToSet(net) : CopiesIn(e, net') < CopiesIn(e, net)

\* the message types the Host is to pass on to its spectators
FanOutTypes ==
  {"BATTLE_SETUP", "TURN_ASSIGNMENT", "ATTACK_ANNOUNCE", "CALCULATION_REPORT",
   "GAME_OVER"}

\* thread k, blocked on the acknowledgement of m, goes on to send m to every
\* spectator: it holds m for a loop over self.spectators that has not begun
FansOut(k, m) ==
  /\ k.p = "host" /\ k.i = 0
  /\ \/ k.pc \in {"bcast", "cr2", "bs1"} /\ k.out = m
     \/ k.pc = "bs2" /\ m.message_type = "TURN_ASSIGNMENT"

\* C22: with a spectator registered, every BATTLE_SETUP, TURN_ASSIGNMENT,
\* ATTACK_ANNOUNCE, CALCULATION_REPORT and GAME_OVER the Host sends to the
\* Joiner is sent by a thread that goes on to send the same envelope to every
\* spectator, and each round of such a loop sends that envelope, with only
\* the destination changed, to the next spectator
C22_FanOutComplete ==
  /\ [][\A m \in Sent :
          (~Delivers /\ m.src = "host" /\ m.dst = "joiner"
             /\ m.message_type \in FanOutTypes /\ Len(host.spectators) > 0)
            => \E k \in Continues : FansOut(k, m)]_vars
  /\ [][\A t \in BagToSet(threads) :
          (Runs(t) /\ t.p = "host" /\ t.pc \in {"bcast", "cr2"}
             /\ t.i < Len(host.spectators))
            => Sent = {[t.out EXCEPT !.dst = host.spectators[t.i + 1]]}]_vars

\* the envelopes the step hands to the network
Originated == {e.m : e \in BagToSet(net' (-) net)}

\* C23: a Spectator originates SPECTATOR_REQUEST and CHAT_MESSAGE envelopes
\* only, its handlers send nothing, and the Host's handlers of a
\* SPECTATOR_REQUEST or of an envelope a Spectator originated leave the Host's
\* battle_state and remote peer address unchanged
C23_SpectatorHarmless ==
  /\ [](\A m \in Envelopes \ {NoMsg} :
          m.src = "spec" => m.message_type \in {"SPECTATOR_REQUEST", "CHAT_MESSAGE"})
  /\ [][\A t \in BagToSet(threads) :
          /\ (Runs(t) /\ t.p = "spec") => Originated = {}
          /\ (Runs(t) /\ t.p = "host"
                /\ (t.msg.message_type = "SPECTATOR_REQUEST" \/ t.msg.src = "spec"))
               => /\ host'.battle_state = host.battle_state
                  /\ host'.remote_addr = host.remote_addr]_vars

C23_Witness ==
  /\ host.spectators = <<"spec">>
  /\ host.remote_addr = "joiner"
  /\ host.battle_state.turn = "joiner"
  /\ \E t \in BagToSet(threads) :
       t.p = "host" /\ t.msg.message_type = "CHAT_MESSAGE" /\ t.msg.src = "spec"

\* the step sends or handles a CHAT_MESSAGE
Chats ==
  \/ \E m \in Originated : m.message_type = "CHAT_MESSAGE"
  \/ \E t \in BagToSet(threads) : Runs(t) /\ t.msg.message_type = "CHAT_MESSAGE"

\* C24: a step that sends or handles a CHAT_MESSAGE leaves the state of
\* every session (battle_state, both snapshots, last_announced_move, the
\* spectator registry) unchanged and sends no envelope of another type
C24_ChatSideChannel ==
  [][Chats => /\ host' = host /\ joiner' = joiner /\ spectator' = spectator
              /\ \A m \in Originated : m.message_type = "CHAT_MESSAGE"
              /\ \A t \in BagToSet(threads) : Runs(t) => Originated = {}]_vars

C24_Witness ==
  /\ host.battle_state.game_over
  /\ joiner.battle_state.turn = "host"
  /\ \E t \in BagToSet(threads) :
       /\ t.p = "joiner" /\ t.msg.message_type = "CHAT_MESSAGE"
       /\ t.msg.content_type = "STICKER"

\* C25: every call of calculate_damage returns an integer that is at least 1
C25_AtLeastOne ==
  \A c \in calc.calls : c.value >= 1

\* the stat pair of the reference formula
RefStats ==
  IF calc.move.damage_category = "physical"
  THEN <<calc.attacker_row.attack, calc.defender_row.defense>>
  ELSE <<calc.attacker_row.sp_attack, calc.defender_row.sp_defense>>

\* the factor of one defender type, in quarters
RefFactor(type) ==
  IF type = "" THEN 4
  ELSE IF Capitalize(calc.move.type) \in DOMAIN calc.defender_row.type_effectiveness
       THEN calc.defender_row.type_effectiveness[Capitalize(calc.move.type)]
       ELSE 4

\* (attacker_stat / max(defender_stat, 1)) * power * multiplier as a fraction
RefNum ==
  RefStats[1] * calc.move.power
    * RefFactor(calc.defender_row.type1) * RefFactor(calc.defender_row.type2)
RefDen == Max(RefStats[2], 1) * 16

\* C26: for a defender row of the database and a physical or special move,
\* calculate_damage returns max(1, n) for an integer n nearest to
\* (attacker_stat / max(defender_stat, 1)) * power * multiplier, the stat pair
\* chosen by the category and the multiplier the product of the defender's
\* table entry for the move's type over its non-empty types
C26_ReferenceFormula ==
  \A c \in calc.calls :
    (calc.defender_row.has_types /\ calc.move.damage_category \in {"physical", "special"})
      => \E n \in {RefNum \div RefDen, (RefNum \div RefDen) + 1} :
           /\ 2 * RefNum - 2 * n * RefDen <= RefDen
           /\ 2 * n * RefDen - 2 * RefNum <= RefDen
           /\ c.value = Max(1, n)

C26_Witness ==
  /\ calc.defender_row.has_types /\ calc.defender_row.type2 # ""
  /\ calc.move.damage_category = "special"
  /\ 2 * RefNum = 5 * RefDen
  /\ RefFactor("rock") = 2
  /\ \E c \in calc.calls : c.value = 3

C28_DuplicateTolerant ==
  hist.subtracted <= 1

\* Handler thread t is inside an update of its session's battle state: an
\* ATTACK_ANNOUNCE handler that has read the turn and has the subtraction from
\* its combatant's hit points ahead (peers.py:148-175, 473-498), or the Host's
\* CALCULATION_REPORT handler that has written the reported hit points and has
\* the game-over check and the writes of game_over and turn ahead
\* (peers.py:242-300)
Updating(t) ==
  \/ t.msg.message_type = "ATTACK_ANNOUNCE" /\ t.pc \in {"aa1", "ja1"}
  \/ t.msg.message_type = "CALCULATION_REPORT" /\ t.p = "host" /\ t.pc \in {"cr1", "cr2"}

\* the battle state and the hit points a session holds
BattleData(p) ==
  IF p = "host"
  THEN <<host.battle_state, host.local_pokemon_row.hp, host.joiner_pokemon_row.hp>>
  ELSE <<joiner.battle_state, joiner.local_pokemon_row.hp, joiner.host_pokemon_row.hp>>

\* C29: no two handler threads of a session are inside an update of its
\* battle state at the same time, and while a handler thread is inside one
\* no other thread changes the session's battle state or hit points
C29_Serialized ==
  /\ [](\A t, u \in BagToSet(threads) :
          (Updating(t) /\ Updating(u) /\ t.p = u.p)
            => t = u /\ CopiesIn(t, threads) = 1)
  /\ [][\A t \in BagToSet(threads) :
          (Updating(t) /\ ~Runs(t)) => BattleData(t.p)' = BattleData(t.p)]_vars

\* the Host's handler of the Joiner's BATTLE_SETUP has run its first segment
SetupHandled == host.joiner_pokemon_name # None

\* C30: the Host's BATTLE_SETUP handler sends, with the Host's turn 'host',
\* one TURN_ASSIGNMENT with current_turn 'host' to the Joiner and then one to
\* every registered spectator, and does not change the turn; once the
\* handler has started the Joiner's turn becomes 'host' in the end; the
\* Joiner's turn leaves None only in its TURN_ASSIGNMENT handler, for 'host',
\* and while it is None no announce_attack of the Joiner passes its guard
\* and every ATTACK_ANNOUNCE the Joiner handles is dropped
C30_FirstTurn ==
  /\ [][\A t \in BagToSet(threads) :
          (Runs(t) /\ t.p = "host" /\ t.msg.message_type = "BATTLE_SETUP")
            => /\ t.pc = "bs1" =>
                    /\ host.battle_state.turn = "host"
                    /\ SendsOne("TURN_ASSIGNMENT", t.msg.src)
                    /\ \A m \in Sent : m.current_turn = "host" /\ m.dst = "joiner"
               /\ (t.pc = "bs2" /\ t.i < Len(host.spectators)) =>
                    /\ SendsOne("BATTLE_SETUP", host.spectators[t.i + 1])
                    /\ \A k \in Continues : k.pc = "bs3" /\ k.i = t.i
               /\ t.pc = "bs3" =>
                    /\ SendsOne("TURN_ASSIGNMENT", host.spectators[t.i + 1])
                    /\ \A m \in Sent : m.current_turn = "host"
                    /\ \A k \in Continues : k.pc = "bs2" /\ k.i = t.i + 1
               /\ (t.pc = "bs2" /\ t.i >= Len(host.spectators)) => Dropped(t)
               /\ host'.battle_state.turn = host.battle_state.turn]_vars
  /\ (SetupHandled /\ joiner.battle_state.turn = None)
       ~> (joiner.battle_state.turn = "host")
  /\ [][joiner.battle_state.turn = None =>
          /\ joiner'.battle_state.turn # None =>
               /\ joiner'.battle_state.turn = "host"
               /\ \E t \in BagToSet(threads) : Handles(t, "joiner", "TURN_ASSIGNMENT")
          /\ ~(hist'.attacks > hist.attacks /\ hist'.last = "joiner")
          /\ \A t \in BagToSet(threads) :
               Handles(t, "joiner", "ATTACK_ANNOUNCE") => Dropped(t)]_vars

C30_Witness ==
  /\ joiner.battle_state.turn = "host"
  /\ "joiner" \in hist.rejected
  /\ hist.attacks = 1
  /\ host.spectators = <<"spec">>
  /\ spectator.host_pokemon_name # None
  /\ Pending = 0

(***************************************************************************)
(* Properties of the replicas of the match.                                 *)
(***************************************************************************)
\* the Joiner holds the transmitted data as the Host's row
JoinerFallback == IsRow(joiner.host_pokemon_row) /\ ~joiner.host_pokemon_row.has_types

\* C31: a BATTLE_SETUP naming a combatant the Joiner's database lacks stores
\* the transmitted stats as the Host's row, and with that row every accepted
\* ATTACK_ANNOUNCE and every DEFENSE_ANNOUNCE of a known move the Joiner
\* handles is answered by a CALCULATION_REPORT
C31_FallbackCompletes ==
  /\ [][\A t \in BagToSet(threads) :
          (Handles(t, "joiner", "BATTLE_SETUP")
             /\ t.msg.pokemon_name \notin DOMAIN pokemon_db(joiner.csv))
            => /\ joiner'.host_pokemon_row = t.msg.pokemon
               /\ joiner'.battle_state.host_hp = t.msg.pokemon.hp]_vars
  /\ [][\A t \in BagToSet(threads) :
          (Runs(t) /\ t.p = "joiner" /\ JoinerFallback)
            => /\ (t.pc = "ja1" /\ MovesGet(t.msg.move_name) # NoMove)
                    => SendsOne("CALCULATION_REPORT", "host")
               /\ (Handles(t, "joiner", "DEFENSE_ANNOUNCE")
                     /\ MovesGet(joiner.last_announced_move) # NoMove)
                    => SendsOne("CALCULATION_REPORT", "host")]_vars

\* both BATTLE_SETUP envelopes have been handled
SetupsExchanged == host.joiner_pokemon_name # None /\ joiner.host_pokemon_name # None

\* no datagram is in flight and no handler thread is left
Quiescent == Pending = 0 /\ \A p \in {"host", "joiner"} : user[p] = "idle"

\* C32: with one csv on both sides, whenever no datagram is in flight and no
\* handler runs, the Host and the Joiner hold the same host_hp and the same
\* joiner_hp
C32_HpAgree ==
  (Quiescent /\ SetupsExchanged /\ joiner.csv = "std")
    => /\ host.battle_state.host_hp = joiner.battle_state.host_hp
       /\ host.battle_state.joiner_hp = joiner.battle_state.joiner_hp

\* C33: once the Joiner has handled a TURN_ASSIGNMENT and while neither side
\* has game_over set, whenever no datagram is in flight and no handler runs
\* the Host and the Joiner hold the same turn, 'host' or 'joiner'
C33_TurnAgree ==
  (Quiescent /\ joiner.battle_state.turn # None
     /\ ~host.battle_state.game_over /\ ~joiner.battle_state.game_over)
    => /\ host.battle_state.turn = joiner.battle_state.turn
       /\ host.battle_state.turn \in {"host", "joiner"}

\* C34: once the spectator is registered, both setups are exchanged and
\* every datagram is delivered and handled, the spectator holds the Host's
\* and the Joiner's combatants under host_pokemon_name and
\* joiner_pokemon_name and the Host's battle_state hit points under host_hp
\* and joiner_hp
C34_SpectatorMirror ==
  (Pending = 0 /\ user["spec"] = "idle" /\ host.spectators = <<"spec">>
     /\ SetupsExchanged)
    => /\ spectator.host_pokemon_name = host.local_pokemon_name
       /\ spectator.joiner_pokemon_name = host.joiner_pokemon_name
       /\ spectator.host_hp = host.battle_state.host_hp
       /\ spectator.joiner_hp = host.battle_state.joiner_hp

\* the damage of the latest attack, as the attacker computes it
LastDamage ==
  IF hist.last = "host"
  THEN calculate_damage(host.local_pokemon_row, host.joiner_pokemon_row,
                        MovesGet(host.last_announced_move))
  ELSE calculate_damage(joiner.local_pokemon_row, joiner.host_pokemon_row,
                        MovesGet(joiner.last_announced_move))

\* the attacker's copy of the defender's hit points
DefenderCopy ==
  IF hist.last = "host" THEN host.battle_state.joiner_hp
  ELSE joiner.battle_state.host_hp

\* C35: when the attacker's DEFENSE_ANNOUNCE handler and its
\* CALCULATION_REPORT handler have both finished, in whichever order they
\* ran, the attacker's copy of the defender's hit points is the value at the
\* announcement less the damage, and 0 if that is negative; for an attack
\* that was turned down it is the value at the announcement
C35_AppliedOnce ==
  (Quiescent /\ hist.attacks > 0)
    => DefenderCopy \in {hist.before, Max(0, hist.before - LastDamage)}

\* C36: every TURN_ASSIGNMENT a handler of the Host sends carries the turn
\* the Host's battle_state holds when it is sent
C36_TurnMessageTrue ==
  [][\A t \in BagToSet(threads) :
       (Runs(t) /\ t.p = "host")
         => \A m \in Sent :
              (m.message_type = "TURN_ASSIGNMENT" /\ m.src = "host")
                => m.current_turn = host'.battle_state.turn]_vars

\* the hit points a Host or Joiner session holds: battle_state and snapshots
HpValues ==
  << host.battle_state.host_hp, host.battle_state.joiner_hp,
     host.local_pokemon_row.hp, host.joiner_pokemon_row.hp,
     joiner.battle_state.host_hp, joiner.battle_state.joiner_hp,
     joiner.local_pokemon_row.hp, joiner.host_pokemon_row.hp >>

\* C37: every hit-point value a session knows is at least 0, and once both
\* setups are exchanged no step makes any of them larger
C37_HpMonotone ==
  /\ [](\A i \in DOMAIN HpValues : HpValues[i] >= 0 \/ HpValues[i] = NoHp)
  /\ [][SetupsExchanged
          => \A i \in DOMAIN HpValues : HpValues[i]' <= HpValues[i]]_vars

\* battle_state['game_over'] of the player p
GameOver(p) ==
  IF p = "host" THEN host.battle_state.game_over ELSE joiner.battle_state.game_over

\* C38: a player whose game_over is set sends no ATTACK_ANNOUNCE from
\* announce_attack, and an ATTACK_ANNOUNCE or DEFENSE_ANNOUNCE it handles is
\* dropped: no hit points change and nothing is sent
C38_FrozenAfterGameOver ==
  [][\A p \in {"host", "joiner"} :
       GameOver(p)
         => /\ (user[p] = "idle" /\ user'[p] = "busy")
                 => \A m \in Sent : m.message_type # "ATTACK_ANNOUNCE"
            /\ \A t \in BagToSet(threads) :
                 (Handles(t, p, "ATTACK_ANNOUNCE") \/ Handles(t, p, "DEFENSE_ANNOUNCE"))
                   => Dropped(t)]_vars


(***************************************************************************)
(* Properties of the transport, of the spectator registry.                 *)
(***************************************************************************)
\* the envelope thread c transmits in its call of send
Envelope(c) == Data(senders[c].seq, c[1], senders[c].dst)

\* C39: a reliable send returns True only when the receive loop at its
\* destination has received the envelope it transmitted; an ACK that answers
\* another envelope, or comes from another address, does not end it with True
C39_SuccessMeansDelivered ==
  [][\A c \in Callers :
       (senders[c].reliable /\ Returned(c, "True"))
         => Envelope(c) \in nhist.taken]_vars

\* C40: no address occurs twice in the Host's list of spectators, whatever
\* SPECTATOR_REQUEST is delivered again, and a loop over the list that is about
\* to send to an address has not sent to that address in an earlier round
C40_RegistryHoldsOnce ==
  /\ \A i, j \in DOMAIN host.spectators :
       i # j => host.spectators[i] # host.spectators[j]
  /\ \A t \in BagToSet(threads) :
       (t.p = "host" /\ t.i < Len(host.spectators))
         => \A j \in 1 .. t.i : host.spectators[j] # host.spectators[t.i + 1]

====
